---- MODULE Spec2Model ----
(***************************************************************************)
(* A model of the F3 reader core (crate fff-poc):                          *)
(*   - the checksum calculator                 (src/common/checksum.rs)    *)
(*   - WASMReadingContext, the decoder registry       (src/context.rs)     *)
(*   - impl Reader for [u8], the in-memory reader     (src/io/reader.rs)   *)
(*   - FileReaderV2Builder::build, the reader builder (src/reader/builder.rs)*)
(*   - ObjectStoreReadAt::size, the cached object size (src/io/reader.rs)  *)
(*   - WASMWritingContext, the writer's decoders      (src/context.rs)     *)
(* and of buffer_to_array (crate fff-core).                                *)
(* Each part has its own specification (SpecRegistry, SpecSlice,           *)
(* SpecBuild, SpecChecksum, SpecSetters, SpecObject, SpecWriter,            *)
(* SpecBuffers); the variables of the other parts stay at their initial    *)
(* values.                                                                 *)
(***************************************************************************)
EXTENDS Integers, Sequences, FiniteSets, TLC

(***************************************************************************)
(* Bounds of the model.                                                    *)
(***************************************************************************)
\* threads that share one WASMReadingContext
NumThreads == 2
\* get_runtime calls made on one context
MaxCalls == 2
\* decoder ids asked for are 0..MaxId
MaxId == 1
\* locators in the WASMBinaries table of the file
MaxLocators == 2
\* a byte is ByteBits wide (8 in the program); u32 is 4 bytes, u64 and usize 8
ByteBits == 2
\* the bytes of the slices read in SpecSlice are 0..MaxByte
MaxByte == 1
\* the longest in-memory slice read from
MaxSliceLen == 3
\* the longest destination buffer
MaxBufLen == 3

\* updates made on one checksum calculator
MaxUpdates == 2
\* the longest chunk fed to a checksum calculator in one update
MaxChunkLen == 2

\* calls of size() on one ObjectStoreReadAt
MaxSizeCalls == 3
\* the object in the store is 1..MaxObjectSize bytes long
MaxObjectSize == 2
\* the times the object in the store is replaced
MaxChanges == 1

\* at most MaxBuffers raw buffers of at most MaxRawLen bytes, MaxRows rows
MaxBuffers == 3
MaxRawLen == 1
MaxRows == 2

\* the decoders of a writer have ids 0..MaxLibId
MaxLibId == 2
\* calls made on one writing context
MaxWriterCalls == 1

\* with_ methods called on one builder
MaxSetters == 3
\* row-index groups of a selection
MaxGroups == 2

\* options::DEFAULT_IOUNIT_SIZE, the bytes read ahead from the end of a file
\* (8MB in the program)
DEFAULT_IOUNIT_SIZE == 64

VARIABLES
    \* ---- WASMReadingContext<R> (context.rs:143-150) ----
    ctx,             \* "absent" before construction, then "file" or "injected"
    lazy_wasm,       \* the OnceLock<Result<HashMap<WASMId, Arc<Runtime>>>>
    wasm_locations,  \* Option<MetadataSection>
    r,               \* Option<R>
    \* ---- the file behind the reader r ----
    wasm_section,    \* what the bytes at wasm_locations hold
    \* ---- threads inside get_runtime ----
    pc,              \* position of each thread
    wasm_id,         \* the argument of the call each thread is in
    init_local,      \* locals of the init closure: [k, wasms]
    calls,           \* get_runtime calls started so far
    contended,       \* some caller found another thread inside the closure
    \* ---- observations ----
    reads,           \* read_exact_at calls issued to r, in order
    compiles,        \* Runtime::try_new calls made
    init_runs,       \* times the init closure body was entered
    init_failure,    \* the step of the init closure that failed, or "none"
    returned,        \* every (wasm_id, result) a get_runtime call returned
    last_ret,        \* the (wasm_id, result) of the call that returned last
    \* ---- impl Reader for [u8] (io/reader.rs:54-77) ----
    slice,           \* self: the bytes of the slice
    buf,             \* the destination buffer, as the call left it
    buf_before,      \* the destination buffer, as the call found it
    rd_offset,       \* the offset argument of read_exact_at
    rd_result,       \* what read_exact_at did: [called, ok, panicked, err]
    size_result,     \* what size() returned: [called, value]
    \* ---- FileReaderV2Builder<R> (reader/builder.rs:20-31) and its file ----
    file,            \* the file behind self.reader
    origin,          \* how the file came to be: [shape, defect, flip]
    builder,         \* the fields of the builder
    overflow_checks, \* whether the build panics on integer overflow
    \* ---- build(self) (reader/builder.rs:110-331) ----
    stage,           \* the stretch of build that runs next
    io,              \* the read_exact_at calls issued to self.reader, in order
    file_size,
    read_ahead_buffer,
    post_script,
    footer_fbs,
    total_columns,
    row_group_cnt_n_pointers,
    all_metadata_buffer,
    grouped_column_metadata_buffers,
    wasm_context,
    shared_dictionary_cache,
    build_result,    \* "running", then what build returned, or that it panicked
    \* ---- a Box<dyn Checksum> (common/checksum.rs:21-50) ----
    ck_state,        \* XxHash.state
    ck_chunks,       \* the chunks fed by update since creation or reset
    ck_digest,       \* what the last finalize returned, if nothing was fed since
    \* ---- a FileReaderV2Builder being configured (builder.rs:34-84) ----
    fluent_builder,  \* the builder the last method returned, if it returned one
    last_call,       \* the last method called on it and its argument
    setter_result,   \* whether the last method returned a builder, or its error
    setters_applied, \* the number of methods called
    \* ---- an ObjectStoreReadAt shared by threads (io/reader.rs:79-164) ----
    cache_size,  \* ObjectStoreReadAt.cache_size, a OnceLock<u64>
    object_size,  \* the size of the object in the store, now
    object_changes,  \* the times the object has changed
    size_pc,  \* where each thread is in size()
    size_local,  \* per thread: the size its head request returned
    size_call,  \* per thread: what the call found and did so far
    head_requests,  \* the head requests sent to the store
    size_returns, \* what the calls of size() returned, in the order they returned
    \* ---- a WASMWritingContext and the calls made on it (context.rs:40-140, encoder/encunit.rs) ----
    writing_context,  \* the context, once a constructor has returned it
    given,  \* what the constructor was given
    sorted_wasms,  \* what the last get_sorted_wasms returned
    encoder_call,  \* the arguments of the last create_encunit_encoder
    encoder_result,  \* what it returned
    writer_calls, \* the calls made on the context
    \* ---- one call of buffer_to_array (fff-core, util::buffer_to_array) ----
    raw,  \* the arguments: logical type, raw buffers, row count
    array_result  \* what the call returned

regVars ==
    << ctx, lazy_wasm, wasm_locations, r, wasm_section, pc, wasm_id,
       init_local, calls, contended, reads, compiles, init_runs,
       init_failure, returned, last_ret >>

sliceVars == << slice, buf, buf_before, rd_offset, rd_result, size_result >>

buildVars ==
    << file, origin, builder, overflow_checks, stage, io, file_size,
       read_ahead_buffer, post_script, footer_fbs, total_columns,
       row_group_cnt_n_pointers, all_metadata_buffer,
       grouped_column_metadata_buffers, wasm_context,
       shared_dictionary_cache, build_result >>

checksumVars == << ck_state, ck_chunks, ck_digest >>

setterVars == << fluent_builder, last_call, setter_result, setters_applied >>

objectVars ==
    << cache_size, object_size, object_changes, size_pc, size_local,
       size_call, head_requests, size_returns >>

writerVars ==
    << writing_context, given, sorted_wasms, encoder_call, encoder_result,
       writer_calls >>

bufferVars == << raw, array_result >>

vars == << regVars, sliceVars, buildVars, checksumVars, setterVars, objectVars, writerVars, bufferVars >>

\* what the actions of one part leave alone
notRegVars == << sliceVars, buildVars, checksumVars, setterVars, objectVars, writerVars, bufferVars >>

notSliceVars == << regVars, buildVars, checksumVars, setterVars, objectVars, writerVars, bufferVars >>

notBuildVars == << regVars, sliceVars, checksumVars, setterVars, objectVars, writerVars, bufferVars >>

notChecksumVars == << regVars, sliceVars, buildVars, setterVars, objectVars, writerVars, bufferVars >>

notSetterVars == << regVars, sliceVars, buildVars, checksumVars, objectVars, writerVars, bufferVars >>

notObjectVars == << regVars, sliceVars, buildVars, checksumVars, setterVars, writerVars, bufferVars >>

notWriterVars == << regVars, sliceVars, buildVars, checksumVars, setterVars, objectVars, bufferVars >>

notBufferVars == << regVars, sliceVars, buildVars, checksumVars, setterVars, objectVars, writerVars >>

Threads == 1..NumThreads
WasmIds == 0..MaxId

(***************************************************************************)
(* Errors.  fff_core::errors::Error is rendered by its variant and the     *)
(* pieces of its message, in order; format!("...: {}", e) prepends a piece *)
(* to the rendering of e.                                                  *)
(***************************************************************************)
NoError == [variant |-> "None", text |-> << >>]

General(text) == [variant |-> "General", text |-> text]

Display(e) == e.text

\* what a failing R::read_exact_at returns
IoFailure == General(<< "read failure" >>)

\* what flatbuffers / wasm compilation report
LibFailure == << "invalid module" >>

(***************************************************************************)
(* Runtimes.  An Arc<Runtime> is known by the allocation it points to      *)
(* (serial) and by the module bytes it was compiled from.                  *)
(***************************************************************************)
NoRuntime == [serial |-> 0, offset |-> 0, size |-> 0]

NoneOpt == [some |-> FALSE, offset |-> 0, size |-> 0]

SomeSection(offset, size) == [some |-> TRUE, offset |-> offset, size |-> size]

EmptyMap == [i \in {} |-> NoRuntime]

\* the runtimes a caller may inject: one allocation per id
InjectedRuntime(id) == [serial |-> 100 + id, offset |-> 0, size |-> 0]

InjectedMaps == { [i \in S |-> InjectedRuntime(i)] : S \in SUBSET WasmIds }

\* the locators a WASMBinaries table may list
Locators ==
    { [offset |-> 16, size |-> 4, valid |-> TRUE],
      [offset |-> 32, size |-> 4, valid |-> TRUE],
      [offset |-> 16, size |-> 4, valid |-> FALSE] }

LocatorLists ==
    UNION { [1..n -> Locators] : n \in 0..MaxLocators }

\* the contents of the WASMBinaries section of a file
WasmSections ==
    { [parse |-> "corrupt", locs |-> << >>], [parse |-> "nolist", locs |-> << >>] }
    \cup { [parse |-> "list", locs |-> l] : l \in LocatorLists }

(***************************************************************************)
(* OnceLock (std::sync::OnceLock) as get_runtime uses it.                  *)
(***************************************************************************)
Uninit == [state |-> "Uninit", ok |-> FALSE, map |-> EmptyMap, err |-> NoError]

Running == [state |-> "Running", ok |-> FALSE, map |-> EmptyMap, err |-> NoError]

SetOk(map) == [state |-> "Set", ok |-> TRUE, map |-> map, err |-> NoError]

SetErr(e) == [state |-> "Set", ok |-> FALSE, map |-> EmptyMap, err |-> e]

\* a cell that forgets a failed initialization, so that the next call retries
StoreRetryOnFailure(res) ==
    IF res.ok THEN SetOk(res.map) ELSE Uninit

\* get_or_init stores whatever the closure returned, Ok or Err
Store(res) ==
    IF res.ok THEN SetOk(res.map) ELSE SetErr(res.err)

\* a cell without the fast path: a caller that finds it set runs the closure again
EnterAlways(cell) ==
    CASE cell.state = "Running" -> "blocked"
      [] OTHER -> "init"

\* a cell that lets every caller that finds it unset run the closure
EnterRacy(cell) ==
    CASE cell.state = "Set" -> "lookup"
      [] OTHER -> "init"

\* where get_or_init sends a caller: the fast path, the closure, or the wait
Enter(cell) ==
    CASE cell.state = "Set" -> "lookup"
      [] cell.state = "Uninit" -> "init"
      [] OTHER -> "blocked"

InitOk(map) == [ok |-> TRUE, map |-> map, err |-> NoError]

InitErr(e) == [ok |-> FALSE, map |-> EmptyMap, err |-> e]

(***************************************************************************)
(* Constructors.                                                           *)
(***************************************************************************)
\* a constructor that reads the locator table right away
NewWithVersionsEager(section_offset, section_size) ==
    /\ ctx = "absent"
    /\ ctx' = "file"
    /\ lazy_wasm' = Uninit
    /\ wasm_locations' = SomeSection(section_offset, section_size)
    /\ r' = TRUE
    /\ reads' = Append(reads, << section_offset, section_size >>)
    /\ UNCHANGED notRegVars
    /\ UNCHANGED << wasm_section, pc, wasm_id, init_local, calls, contended,
                    compiles, init_runs, init_failure, returned, last_ret >>

\* a constructor that keeps the map aside and leaves the cell unset
NewWithRtLazy(wasm_rts) ==
    /\ ctx = "absent"
    /\ ctx' = "injected"
    /\ lazy_wasm' = Uninit
    /\ wasm_locations' = NoneOpt
    /\ r' = FALSE
    /\ UNCHANGED notRegVars
    /\ UNCHANGED << wasm_section, pc, wasm_id, init_local, calls, contended,
                    reads, compiles, init_runs, init_failure, returned, last_ret >>

\* new / new_with_versions: nothing is read, the cell is left unset
NewWithVersions(section_offset, section_size) ==
    /\ ctx = "absent"
    /\ ctx' = "file"
    /\ lazy_wasm' = Uninit
    /\ wasm_locations' = SomeSection(section_offset, section_size)
    /\ r' = TRUE
    /\ UNCHANGED notRegVars
    /\ UNCHANGED << wasm_section, pc, wasm_id, init_local, calls, contended,
                    reads, compiles, init_runs, init_failure, returned, last_ret >>

\* new_with_rt / new_with_rt_and_versions: the cell is seeded with the map
NewWithRtAndVersions(wasm_rts) ==
    /\ ctx = "absent"
    /\ ctx' = "injected"
    /\ lazy_wasm' = Store(InitOk(wasm_rts))
    /\ wasm_locations' = NoneOpt
    /\ r' = FALSE
    /\ UNCHANGED notRegVars
    /\ UNCHANGED << wasm_section, pc, wasm_id, init_local, calls, contended,
                    reads, compiles, init_runs, init_failure, returned, last_ret >>

(***************************************************************************)
(* get_runtime, step by step.                                              *)
(***************************************************************************)
\* the closure returns res: the cell is set and the caller goes on to look up
Finish(t, res, failure) ==
    /\ lazy_wasm' = Store(res)
    /\ pc' = [pc EXCEPT ![t] = "lookup"]
    /\ init_failure' = failure

\* a loop that, when module k fails, keeps the modules loaded before it
ModuleFailureKeepsLoaded(wasms, e) == InitOk(wasms)

\* lines 225 and 231-232: the ? operator leaves the closure with the error,
\* dropping the map built so far
ModuleFailure(wasms, e) == InitErr(e)

\* ids counted from one
WasmIdFromOne(id) == id + 1

\* line 227: WASMId(id as u32), id being the place in the list (a flatbuffers
\* vector has fewer than 2^32 elements, so the cast keeps the value)
WasmIdOf(id) == id

\* line 202: the call enters get_or_init
GetRuntimeCall(t, id) ==
    /\ ctx # "absent"
    /\ pc[t] = "idle"
    /\ calls < MaxCalls
    /\ calls' = calls + 1
    /\ contended' = (contended \/ Enter(lazy_wasm) = "blocked")
    /\ wasm_id' = [wasm_id EXCEPT ![t] = id]
    /\ pc' = [pc EXCEPT ![t] = Enter(lazy_wasm)]
    /\ lazy_wasm' = IF Enter(lazy_wasm) = "init" THEN Running ELSE lazy_wasm
    /\ init_runs' = IF Enter(lazy_wasm) = "init" THEN init_runs + 1 ELSE init_runs
    /\ UNCHANGED notRegVars
    /\ UNCHANGED << ctx, wasm_locations, r, wasm_section, init_local, reads,
                    compiles, init_failure, returned, last_ret >>

\* lines 207-220: the locator table is read and parsed
InitReadTable(t) ==
    /\ pc[t] = "init"
    /\ IF ~wasm_locations.some
       THEN /\ Finish(t, InitErr(General(<< "WASM locations not available" >>)),
                      "no_locations")
            /\ UNCHANGED << init_local, reads >>
       ELSE IF ~r
       THEN /\ Finish(t, InitErr(General(<< "Reader not available" >>)), "no_reader")
            /\ UNCHANGED << init_local, reads >>
       ELSE /\ reads' = Append(reads, << wasm_locations.offset, wasm_locations.size >>)
            /\ \E io_ok \in BOOLEAN :
                 IF ~io_ok
                 THEN /\ Finish(t, InitErr(IoFailure), "table_read")
                      /\ UNCHANGED init_local
                 ELSE IF wasm_section.parse = "corrupt"
                 THEN /\ Finish(t, InitErr(General(
                             << "Failed to parse WASM binaries metadata: " >>
                             \o LibFailure)), "table_parse")
                      /\ UNCHANGED init_local
                 ELSE IF wasm_section.parse = "nolist"
                 THEN /\ Finish(t, InitErr(General(<< "WASM binaries list is empty" >>)),
                                "no_list")
                      /\ UNCHANGED init_local
                 ELSE /\ init_local' = [init_local EXCEPT ![t] = [k |-> 0, wasms |-> EmptyMap]]
                      /\ pc' = [pc EXCEPT ![t] = "loop"]
                      /\ UNCHANGED << lazy_wasm, init_failure >>
    /\ UNCHANGED notRegVars
    /\ UNCHANGED << ctx, wasm_locations, r, wasm_section, wasm_id, calls,
                    contended, compiles, init_runs, returned, last_ret >>

\* lines 223-238: one turn of the loop: locator k is read and compiled
InitLoadModule(t) ==
    /\ pc[t] = "loop"
    /\ init_local[t].k < Len(wasm_section.locs)
    /\ LET k == init_local[t].k
           loc == wasm_section.locs[k + 1]
       IN /\ reads' = Append(reads, << loc.offset, loc.size >>)
          /\ \E io_ok \in BOOLEAN :
               IF ~io_ok
               THEN /\ Finish(t, ModuleFailure(init_local[t].wasms, IoFailure),
                              "module_read")
                    /\ UNCHANGED << init_local, compiles >>
               ELSE /\ compiles' = compiles + 1
                    /\ IF ~loc.valid
                       THEN /\ Finish(t, ModuleFailure(init_local[t].wasms, General(
                                   << "Failed to create WASM runtime for id ",
                                      ToString(k), ": " >> \o LibFailure)),
                                   "module_compile")
                            /\ UNCHANGED init_local
                       ELSE /\ init_local' = [init_local EXCEPT ![t] =
                                   [k |-> k + 1,
                                    wasms |-> (WasmIdOf(k) :>
                                                    [serial |-> compiles + 1,
                                                     offset |-> loc.offset,
                                                     size |-> loc.size])
                                              @@ init_local[t].wasms]]
                            /\ UNCHANGED << lazy_wasm, pc, init_failure >>
    /\ UNCHANGED notRegVars
    /\ UNCHANGED << ctx, wasm_locations, r, wasm_section, wasm_id, calls,
                    contended, init_runs, returned, last_ret >>

\* lines 239-244: the loop is over, the closure returns Ok(wasms)
InitFinish(t) ==
    /\ pc[t] = "loop"
    /\ init_local[t].k = Len(wasm_section.locs)
    /\ Finish(t, InitOk(init_local[t].wasms), "none")
    /\ UNCHANGED notRegVars
    /\ UNCHANGED << ctx, wasm_locations, r, wasm_section, wasm_id, init_local,
                    calls, contended, reads, compiles, init_runs, returned,
                    last_ret >>

\* a caller that waited in get_or_init wakes up once the cell is set
WakeUp(t) ==
    /\ pc[t] = "blocked"
    /\ lazy_wasm.state = "Set"
    /\ pc' = [pc EXCEPT ![t] = "lookup"]
    /\ UNCHANGED notRegVars
    /\ UNCHANGED << ctx, lazy_wasm, wasm_locations, r, wasm_section, wasm_id,
                    init_local, calls, contended, reads, compiles, init_runs,
                    init_failure, returned, last_ret >>

RetOk(rt) == [ok |-> TRUE, rt |-> rt, err |-> NoError]

RetErr(e) == [ok |-> FALSE, rt |-> NoRuntime, err |-> e]

\* a lookup that hands out the first runtime of the map when the id is absent
LookupFallback(cell, id) ==
    IF ~cell.ok
    THEN RetErr(General(<< "WASM initialization failed: " >> \o Display(cell.err)))
    ELSE IF id \in DOMAIN cell.map
    THEN RetOk(cell.map[id])
    ELSE IF DOMAIN cell.map # {}
    THEN RetOk(cell.map[CHOOSE i \in DOMAIN cell.map : TRUE])
    ELSE RetErr(General(<< "WASM runtime not found for id: ", ToString(id) >>))

\* a lookup that drops the cause of a failed initialization
LookupNoCause(cell, id) ==
    IF ~cell.ok
    THEN RetErr(General(<< "WASM initialization failed: " >>))
    ELSE IF id \in DOMAIN cell.map
    THEN RetOk(cell.map[id])
    ELSE RetErr(General(<< "WASM runtime not found for id: ", ToString(id) >>))

\* lines 247-252: the stored result is turned into the call's result
Lookup(cell, id) ==
    IF ~cell.ok
    THEN RetErr(General(<< "WASM initialization failed: " >> \o Display(cell.err)))
    ELSE IF id \in DOMAIN cell.map
    THEN RetOk(cell.map[id])
    ELSE RetErr(General(<< "WASM runtime not found for id: ", ToString(id) >>))

\* lines 246-253: the call returns
GetRuntimeReturn(t) ==
    /\ pc[t] = "lookup"
    /\ returned' = returned \cup
           { [id |-> wasm_id[t], res |-> Lookup(lazy_wasm, wasm_id[t])] }
    /\ last_ret' = [id |-> wasm_id[t], res |-> Lookup(lazy_wasm, wasm_id[t])]
    /\ pc' = [pc EXCEPT ![t] = "idle"]
    /\ UNCHANGED notRegVars
    /\ UNCHANGED << ctx, lazy_wasm, wasm_locations, r, wasm_section, wasm_id,
                    init_local, calls, contended, reads, compiles, init_runs,
                    init_failure >>


(***************************************************************************)
(* Machine integers.                                                       *)
(***************************************************************************)
RECURSIVE Pow2(_)
Pow2(n) == IF n = 0 THEN 1 ELSE 2 * Pow2(n - 1)

\* usize and u64 are 8 bytes wide on the targets the crate builds for
UsizeBits == 8 * ByteBits

UsizeMax == Pow2(UsizeBits) - 1

U64Max == UsizeMax

U32Max == Pow2(4 * ByteBits) - 1

\* `x as usize`: the low UsizeBits bits of x
AsUsize(x) == x % (UsizeMax + 1)

NoneInt == [some |-> FALSE, val |-> 0]

SomeInt(v) == [some |-> TRUE, val |-> v]

\* Option<T>
None == [some |-> FALSE, v |-> << >>]

Some(x) == [some |-> TRUE, v |-> x]

Zeros(n) == [i \in 1..n |-> 0]

\* usize::wrapping_add
WrappingAdd(a, b) == SomeInt((a + b) % (UsizeMax + 1))

\* usize::checked_add: None when the sum does not fit
CheckedAdd(a, b) == IF a + b > UsizeMax THEN NoneInt ELSE SomeInt(a + b)

(***************************************************************************)
(* impl Reader for [u8].                                                   *)
(***************************************************************************)
Bytes == 0..(Pow2(ByteBits) - 1)

\* the bytes the slices of SpecSlice are made of
SliceBytes == 0..MaxByte

SeqsUpTo(S, n) == UNION { [1..k -> S] : k \in 0..n }

\* a bounds test that looks at the start of the range only
PastEndStartOnly(offset, end, len) == offset > len

\* line 61: end > self.len()
PastEnd(offset, end, len) == end > len

\* an indexing that takes the first end - start bytes of the slice
IndexFromStart(data, start, end) ==
    IF start > end \/ end > Len(data)
    THEN [panicked |-> TRUE, bytes |-> << >>]
    ELSE [panicked |-> FALSE, bytes |-> SubSeq(data, 1, end - start)]

\* &self[start..end]: the bytes, or a panic when the range is not in the slice
Index(data, start, end) ==
    IF start > end \/ end > Len(data)
    THEN [panicked |-> TRUE, bytes |-> << >>]
    ELSE [panicked |-> FALSE, bytes |-> SubSeq(data, start + 1, end)]

OutOfBoundsError(len, offset, size) ==
    General(<< "Read out of bounds: tried to read ", ToString(len),
               " bytes at offset ", ToString(offset),
               " but slice length is ", ToString(size) >>)

OverflowError == General(<< "Offset overflow" >>)

ReadOk(bytes) == [ok |-> TRUE, panicked |-> FALSE, err |-> NoError, buf |-> bytes]

ReadErr(e, b) == [ok |-> FALSE, panicked |-> FALSE, err |-> e, buf |-> b]

ReadPanic(b) == [ok |-> FALSE, panicked |-> TRUE, err |-> NoError, buf |-> b]

\* lines 55-72: <[u8] as Reader>::read_exact_at(self = data, buf = b, offset)
SliceReadExactAt(data, b, offset) ==
    LET off == AsUsize(offset)
        end == CheckedAdd(off, Len(b))
    IN IF ~end.some
       THEN ReadErr(OverflowError, b)
       ELSE IF PastEnd(off, end.val, Len(data))
       THEN ReadErr(OutOfBoundsError(Len(b), off, Len(data)), b)
       ELSE LET src == Index(data, off, end.val)
            IN IF src.panicked \/ Len(src.bytes) # Len(b)
               THEN ReadPanic(b)
               ELSE ReadOk(src.bytes)

\* lines 74-76: <[u8] as Reader>::size
SliceSize(data) == Len(data)

\* the call read_exact_at(b, offset) on the slice
ReadExactAt(b, offset) ==
    /\ ~rd_result.called
    /\ LET res == SliceReadExactAt(slice, b, offset)
       IN /\ rd_result' = [called |-> TRUE, ok |-> res.ok,
                           panicked |-> res.panicked, err |-> res.err]
          /\ buf' = res.buf
    /\ buf_before' = b
    /\ rd_offset' = offset
    /\ UNCHANGED << slice, size_result >>
    /\ UNCHANGED notSliceVars

\* the call size() on the slice
Size ==
    /\ ~size_result.called
    /\ size_result' = [called |-> TRUE, value |-> SliceSize(slice)]
    /\ UNCHANGED << slice, buf, buf_before, rd_offset, rd_result >>
    /\ UNCHANGED notSliceVars

\* the buffers a caller passes: any length, filled with any one byte
Buffers == { [i \in 1..n |-> fill] : n \in 0..MaxBufLen, fill \in SliceBytes }

\* the offsets a caller passes: the u64 values around the slice and the
\* largest ones
Offsets == (0..(MaxSliceLen + 1)) \cup ((UsizeMax - MaxBufLen)..UsizeMax)

IdleSlice ==
    /\ buf = << >>
    /\ buf_before = << >>
    /\ rd_offset = 0
    /\ rd_result = [called |-> FALSE, ok |-> FALSE, panicked |-> FALSE, err |-> NoError]
    /\ size_result = [called |-> FALSE, value |-> 0]

InitSlice ==
    /\ slice \in SeqsUpTo(SliceBytes, MaxSliceLen)
    /\ IdleSlice

NextSlice ==
    \/ \E b \in Buffers, offset \in Offsets : ReadExactAt(b, offset)
    \/ Size

(***************************************************************************)
(* buffer_to_array of fff-core: a typed array from raw buffers.  The array *)
(* itself is built by the Arrow constructors, which accept or refuse the   *)
(* buffers they are handed.                                                *)
(***************************************************************************)
LogicalTypes ==
    {"Int32", "Float64", "Boolean", "Utf8", "LargeBinary", "Utf8View",
     "List", "LargeList", "Struct", "Map"}

\* the type family of a logical type
TypeFamily(logical_type) ==
    CASE logical_type \in {"Int32", "Float64"} -> "primitive"
      [] logical_type = "Boolean" -> "boolean"
      [] logical_type \in {"Utf8", "LargeBinary"} -> "byte_array"
      [] logical_type = "Utf8View" -> "byte_view"
      [] logical_type \in {"List", "LargeList"} -> "list"
      [] OTHER -> "unsupported"

\* a family table that asks two buffers of every supported family
RequiredTwo(family) == 2

\* the buffers a family requires: [validity, offsets, data] for byte
\* arrays, [validity, data | views | offsets] for the others
RequiredBuffers(family) == IF family = "byte_array" THEN 3 ELSE 2

MissingBuffers == [variant |-> "MissingBuffers", text |-> << >>]

UnsupportedType == [variant |-> "UnsupportedType", text |-> << >>]

\* what the Arrow constructor reports when it refuses the buffers
ArrowError == [variant |-> "Arrow", text |-> << "invalid buffers" >>]

NotConverted ==
    [called |-> FALSE, ok |-> FALSE, len |-> 0, all_valid |-> FALSE,
     err |-> NoError]

ArrayOk(n, all_valid) ==
    [called |-> TRUE, ok |-> TRUE, len |-> n, all_valid |-> all_valid,
     err |-> NoError]

ArrayErr(e) ==
    [called |-> TRUE, ok |-> FALSE, len |-> 0, all_valid |-> FALSE, err |-> e]

\* a conversion that counts the buffers before it looks at the type
BufferToArrayCountFirst(logical_type, buffers, row_count, lower_ok) ==
    IF Len(buffers) < RequiredBuffers(TypeFamily(logical_type))
    THEN ArrayErr(MissingBuffers)
    ELSE IF TypeFamily(logical_type) = "unsupported"
         THEN ArrayErr(UnsupportedType)
         ELSE IF lower_ok
              THEN ArrayOk(row_count, buffers[1] = << >>)
              ELSE ArrayErr(ArrowError)

\* buffer_to_array(logical_type, buffers, row_count); lower_ok tells
\* whether the Arrow constructor accepts the buffers
BufferToArray(logical_type, buffers, row_count, lower_ok) ==
    IF TypeFamily(logical_type) = "unsupported"
    THEN ArrayErr(UnsupportedType)
    ELSE IF Len(buffers) < RequiredBuffers(TypeFamily(logical_type))
         THEN ArrayErr(MissingBuffers)
         ELSE IF lower_ok
              THEN ArrayOk(row_count, buffers[1] = << >>)
              ELSE ArrayErr(ArrowError)

RawBuffers ==
    UNION { [1..n -> { Zeros(k) : k \in 0..MaxRawLen }] : n \in 0..MaxBuffers }

RawInputs ==
    [logical_type : LogicalTypes, buffers : RawBuffers, row_count : 0..MaxRows,
     lower_ok : BOOLEAN]

\* no conversion is asked for
NoConversion ==
    /\ raw = [logical_type |-> "Struct", buffers |-> << >>, row_count |-> 0,
              lower_ok |-> FALSE]
    /\ array_result = NotConverted

InitBuffers ==
    /\ raw \in RawInputs
    /\ array_result = NotConverted

CallBufferToArray ==
    /\ ~array_result.called
    /\ array_result' = BufferToArray(raw.logical_type, raw.buffers,
                                     raw.row_count, raw.lower_ok)
    /\ UNCHANGED raw
    /\ UNCHANGED notBufferVars

NextBuffers == CallBufferToArray

(***************************************************************************)
(* WASMWritingContext (context.rs:40-140) and create_encunit_encoder       *)
(* (encoder/encunit.rs:13-27).  A HashMap is a function on its keys; the   *)
(* order in which it is iterated is any order.                             *)
(***************************************************************************)
LibIds == 0..MaxLibId

DataTypes == {"Int32", "Utf8"}

\* WasmLib { encode_lib_path, decode_wasm_binary }
WasmLib(enc_path, dec_wasm) ==
    [encode_lib_path |-> enc_path, decode_wasm_binary |-> dec_wasm]

\* the built-in decoder, read from BUILTIN_WASM_PATH
BuiltinLib == WasmLib("builtin.wasm", << 0 >>)

CustomLibs == { WasmLib("a.so", << 1 >>), WasmLib("b.so", << 2 >>) }

\* the maps with keys among K and values among V
PartialMaps(K, V) == UNION { [S -> V] : S \in SUBSET K }

NoMap == [k \in {} |-> 0]

NoContext ==
    [state |-> "absent", wasms |-> NoMap, data_type_to_wasm_id |-> NoMap,
     always_set_custom_wasm_for_built_in |-> FALSE,
     builtin_wasm_id |-> NoneInt]

Context(wasms, types, always, builtin) ==
    [state |-> "made", wasms |-> wasms, data_type_to_wasm_id |-> types,
     always_set_custom_wasm_for_built_in |-> always,
     builtin_wasm_id |-> builtin]

\* a default context that holds the built-in decoder under id 1
DefaultAtOne(read_ok) ==
    IF read_ok
    THEN Context(1 :> BuiltinLib, NoMap, FALSE, SomeInt(1))
    ELSE [NoContext EXCEPT !.state = "panicked"]

\* lines 53-83: Default::default, given whether the built-in file was read
Default(read_ok) ==
    IF read_ok
    THEN Context(0 :> BuiltinLib, NoMap, FALSE, SomeInt(0))
    ELSE [NoContext EXCEPT !.state = "panicked"]

\* lines 86-91: the flag set, the rest as Self::default()
DefaultWithAlwaysSetCustomWasm(read_ok) ==
    IF Default(read_ok).state = "made"
    THEN [Default(read_ok) EXCEPT !.always_set_custom_wasm_for_built_in = TRUE]
    ELSE Default(read_ok)

\* lines 93-100
Empty == Context(NoMap, NoMap, FALSE, NoneInt)

\* lines 103-113
WithCustomWasms(wasms, data_type_to_wasm_id) ==
    Context(wasms, data_type_to_wasm_id, FALSE, NoneInt)

\* the orders in which the entries of a map may be iterated
IterationOrders(map) ==
    { o \in [1..Cardinality(DOMAIN map) -> DOMAIN map] :
         \A i, j \in 1..Cardinality(DOMAIN map) : i # j => o[i] # o[j] }

\* the entries left in the order they were iterated in
Unsorted(entries) == entries

\* slice::sort_by_key (a stable sort), by insertion
RECURSIVE SortByKey(_)
SortByKey(entries) ==
    IF entries = << >>
    THEN << >>
    ELSE LET e == entries[Len(entries)]
             sorted == SortByKey(SubSeq(entries, 1, Len(entries) - 1))
             before == Cardinality({ i \in 1..Len(sorted) : sorted[i].k <= e.k })
         IN SubSeq(sorted, 1, before) \o << e >>
              \o SubSeq(sorted, before + 1, Len(sorted))

\* lines 115-122: get_sorted_wasms, the map being iterated in `order`
GetSortedWasms(context, order) ==
    LET wasms == [i \in 1..Len(order) |->
                     [k |-> order[i], v |-> context.wasms[order[i]]]]
        sorted == SortByKey(wasms)
    IN [i \in 1..Len(sorted) |-> sorted[i].v.decode_wasm_binary]

\* lines 128-132: data_type_to_wasm_lib
DataTypeToWasmLib(context, dt) ==
    IF dt \in DOMAIN context.data_type_to_wasm_id
       /\ context.data_type_to_wasm_id[dt] \in DOMAIN context.wasms
    THEN Some(context.wasms[context.data_type_to_wasm_id[dt]])
    ELSE None

\* lines 138-140
BuiltinWasmId(context) == context.builtin_wasm_id

EncoderOk(encoder) == [ok |-> TRUE, encoder |-> encoder, err |-> NoError]

EncoderErr(e) ==
    [ok |-> FALSE, encoder |-> [kind |-> "none", arg |-> << >>], err |-> e]

CustomEncoder(path) == [kind |-> "Custom", arg |-> << path, "encode" >>]

VortexEncoder(enable_dict) == [kind |-> "Vortex", arg |-> << enable_dict >>]

NoEncoderCall == [called |-> FALSE, data_type |-> "", enable_dict |-> FALSE]

\* an encoder factory that refuses a data type without a library
CreateEncunitEncoderStrict(context, data_type, enable_dict, load_ok) ==
    IF DataTypeToWasmLib(context, data_type).some
    THEN EncoderOk(CustomEncoder(
             DataTypeToWasmLib(context, data_type).v.encode_lib_path))
    ELSE EncoderErr(General(<< "Unmapped data type" >>))

\* encunit.rs:13-27, given whether CustomEncoder::try_new loads the library
CreateEncunitEncoder(context, data_type, enable_dict, load_ok) ==
    LET lib == DataTypeToWasmLib(context, data_type)
    IN IF lib.some
       THEN IF load_ok
            THEN EncoderOk(CustomEncoder(lib.v.encode_lib_path))
            ELSE EncoderErr(General(<< "Failed to create custom encoder: ",
                                       "library not loaded" >>))
       ELSE EncoderOk(VortexEncoder(enable_dict))

\* no writing context is made
NoWritingContext ==
    /\ writing_context = NoContext
    /\ given = [how |-> "none", wasms |-> NoMap, data_type_to_wasm_id |-> NoMap]
    /\ sorted_wasms = None
    /\ encoder_call = NoEncoderCall
    /\ encoder_result = EncoderErr(NoError)
    /\ writer_calls = 0

\* a constructor returns `context`, or panics
Construct(how, wasms, types, context) ==
    /\ writing_context.state = "absent"
    /\ writing_context' = context
    /\ given' = [how |-> how, wasms |-> wasms, data_type_to_wasm_id |-> types]
    /\ UNCHANGED << sorted_wasms, encoder_call, encoder_result, writer_calls >>
    /\ UNCHANGED notWriterVars

NewDefault(read_ok) == Construct("default", NoMap, NoMap, Default(read_ok))

NewDefaultWithAlwaysSetCustomWasm(read_ok) ==
    Construct("default_with_always_set_custom_wasm", NoMap, NoMap,
              DefaultWithAlwaysSetCustomWasm(read_ok))

NewEmpty == Construct("empty", NoMap, NoMap, Empty)

NewWithCustomWasms(wasms, types) ==
    Construct("with_custom_wasms", wasms, types, WithCustomWasms(wasms, types))

CanCallWriter ==
    writing_context.state = "made" /\ writer_calls < MaxWriterCalls

CallGetSortedWasms(order) ==
    /\ CanCallWriter
    /\ sorted_wasms' = Some([iterated |-> order,
                             returned |-> GetSortedWasms(writing_context, order)])
    /\ writer_calls' = writer_calls + 1
    /\ UNCHANGED << writing_context, given, encoder_call, encoder_result >>
    /\ UNCHANGED notWriterVars

CallCreateEncunitEncoder(data_type, enable_dict, load_ok) ==
    /\ CanCallWriter
    /\ encoder_call' = [called |-> TRUE, data_type |-> data_type,
                        enable_dict |-> enable_dict]
    /\ encoder_result' = CreateEncunitEncoder(writing_context, data_type,
                                              enable_dict, load_ok)
    /\ writer_calls' = writer_calls + 1
    /\ UNCHANGED << writing_context, given, sorted_wasms >>
    /\ UNCHANGED notWriterVars

NextWriter ==
    \/ \E read_ok \in BOOLEAN : NewDefault(read_ok)
    \/ \E read_ok \in BOOLEAN : NewDefaultWithAlwaysSetCustomWasm(read_ok)
    \/ NewEmpty
    \/ /\ writing_context.state = "absent"
       /\ \E wasms \in PartialMaps(LibIds, CustomLibs),
             types \in PartialMaps(DataTypes, LibIds) :
             NewWithCustomWasms(wasms, types)
    \/ /\ CanCallWriter
       /\ \E order \in IterationOrders(writing_context.wasms) :
             CallGetSortedWasms(order)
    \/ \E data_type \in DataTypes, enable_dict \in BOOLEAN, load_ok \in BOOLEAN :
          CallCreateEncunitEncoder(data_type, enable_dict, load_ok)

(***************************************************************************)
(* ObjectStoreReadAt::size (io/reader.rs:131-164) on a reader shared by    *)
(* threads.  The object store is outside the program: a head request       *)
(* returns the size the object has when it is served, or fails, and the    *)
(* object may be replaced by one of another size at any time.              *)
(***************************************************************************)
ObjectSizes == 1..MaxObjectSize

ObjectStoreError == [variant |-> "ObjectStore", text |-> << "head failed" >>]

JoinError == General(<< "Task join error: ", "cancelled" >>)

\* what RUNTIME.spawn(head).await returns: the size, or one of the errors
HeadOutcomes == {"ok", "store_error", "join_error"}

SizeOk(v) == [ok |-> TRUE, val |-> v, err |-> NoError]

SizeErr(e) == [ok |-> FALSE, val |-> 0, err |-> e]

\* a cell whose set replaces the value it holds
OnceLockOverwrite(cell, v) == SomeInt(v)

\* OnceLock::set: the value is stored if the cell is empty, dropped if not
OnceLockSet(cell, v) == IF cell.some THEN cell ELSE SomeInt(v)

\* lines 86-95: ObjectStoreReadAt::new, and an object of one byte
NewObjectStoreReadAt ==
    /\ cache_size = NoneInt
    /\ object_size = 1
    /\ object_changes = 0
    /\ size_pc = [t \in Threads |-> "idle"]
    /\ size_local = [t \in Threads |-> 0]
    /\ size_call = [t \in Threads |-> [cached |-> FALSE, began |-> 0, heads |-> 0]]
    /\ head_requests = 0
    /\ size_returns = << >>

\* the calls of size() made so far
SizeCallsMade ==
    Len(size_returns) + Cardinality({ t \in Threads : size_pc[t] # "idle" })

\* the call of thread t returns res
SizeReturn(t, call, res) ==
    /\ size_returns' = Append(size_returns,
                              [thread |-> t, res |-> res, cached |-> call.cached,
                               began |-> call.began, heads |-> call.heads])
    /\ size_pc' = [size_pc EXCEPT ![t] = "idle"]

\* lines 133-135: the call begins; a cached size is returned at once
SizeCall(t) ==
    /\ size_pc[t] = "idle"
    /\ SizeCallsMade < MaxSizeCalls
    /\ LET call == [cached |-> cache_size.some, began |-> Len(size_returns),
                    heads |-> 0]
       IN /\ size_call' = [size_call EXCEPT ![t] = call]
          /\ IF cache_size.some
             THEN SizeReturn(t, call, SizeOk(cache_size.val))
             ELSE /\ size_pc' = [size_pc EXCEPT ![t] = "head"]
                  /\ UNCHANGED size_returns
    /\ UNCHANGED << cache_size, object_size, object_changes, size_local,
                    head_requests >>
    /\ UNCHANGED notObjectVars

\* lines 138-153: the head request and the `?` on its two results
SizeHead(t, outcome) ==
    /\ size_pc[t] = "head"
    /\ head_requests' = head_requests + 1
    /\ LET call == [size_call[t] EXCEPT !.heads = @ + 1]
       IN /\ size_call' = [size_call EXCEPT ![t] = call]
          /\ CASE outcome = "ok" ->
                    /\ size_local' = [size_local EXCEPT ![t] = object_size]
                    /\ size_pc' = [size_pc EXCEPT ![t] = "set"]
                    /\ UNCHANGED size_returns
               [] outcome = "join_error" ->
                    /\ SizeReturn(t, call, SizeErr(JoinError))
                    /\ UNCHANGED size_local
               [] outcome = "store_error" ->
                    /\ SizeReturn(t, call, SizeErr(ObjectStoreError))
                    /\ UNCHANGED size_local
    /\ UNCHANGED << cache_size, object_size, object_changes >>
    /\ UNCHANGED notObjectVars

\* lines 161-162: let _ = self.cache_size.set(size); Ok(size)
SizeSet(t) ==
    /\ size_pc[t] = "set"
    /\ cache_size' = OnceLockSet(cache_size, size_local[t])
    /\ SizeReturn(t, size_call[t], SizeOk(size_local[t]))
    /\ UNCHANGED << object_size, object_changes, size_local, size_call,
                    head_requests >>
    /\ UNCHANGED notObjectVars

\* the object in the store is replaced by one of n bytes
ObjectChanges(n) ==
    /\ object_changes < MaxChanges
    /\ n # object_size
    /\ object_size' = n
    /\ object_changes' = object_changes + 1
    /\ UNCHANGED << cache_size, size_pc, size_local, size_call, head_requests,
                    size_returns >>
    /\ UNCHANGED notObjectVars

NextObject ==
    \/ \E t \in Threads : SizeCall(t)
    \/ \E t \in Threads, outcome \in HeadOutcomes : SizeHead(t, outcome)
    \/ \E t \in Threads : SizeSet(t)
    \/ \E n \in ObjectSizes : ObjectChanges(n)

(***************************************************************************)
(* Checksums (common/checksum.rs).  Xxh64 is an external crate; it is      *)
(* modelled by a streaming position-weighted sum over u64, which, like     *)
(* Xxh64, depends on every byte and on the order of the bytes.             *)
(***************************************************************************)
TagOk(t) == [ok |-> TRUE, val |-> t, err |-> NoError]

TagErr(e) == [ok |-> FALSE, val |-> "", err |-> e]

\* lines 4-8: `checksum_type as u8`, the discriminant of the #[repr(u8)] enum
ChecksumTypeAsU8(t) == CASE t = "XxHash" -> 0

\* a decoding that takes every byte for XxHash
ChecksumTypeAcceptAll(v) == TagOk("XxHash")

\* lines 10-19: ChecksumType::try_from(v)
ChecksumTypeTryFrom(v) ==
    IF v = 0
    THEN TagOk("XxHash")
    ELSE TagErr(General(<< "Invalid checksum type: ", ToString(v) >>))

\* lines 27-30, 46-50: create_checksum: XxHash::default(), a state that has
\* taken in no bytes
XxHashDefault == [acc |-> 0, len |-> 0]

\* what the bytes data[lo..hi] add to the accumulator of a state that has
\* taken in `len` bytes: each byte weighs in by its position in the stream
RECURSIVE Absorb(_, _, _, _)
Absorb(data, len, lo, hi) ==
    IF lo > hi
    THEN 0
    ELSE IF lo = hi
    THEN ((data[lo] + 1) * (2 * (len + lo) + 1)) % (U64Max + 1)
    ELSE (Absorb(data, len, lo, (lo + hi) \div 2)
            + Absorb(data, len, (lo + hi) \div 2 + 1, hi)) % (U64Max + 1)

\* an update that starts from a fresh state each time
XxHashUpdateFresh(state, data) ==
    [acc |-> Absorb(data, 0, 1, Len(data)), len |-> Len(data)]

\* lines 33-35: update(data)
XxHashUpdate(state, data) ==
    [acc |-> (state.acc + Absorb(data, state.len, 1, Len(data))) % (U64Max + 1),
     len |-> state.len + Len(data)]

\* lines 37-39: finalize(): the digest of the state
XxHashFinalize(state) == (7 * state.acc + state.len) % (U64Max + 1)

\* the checksum a writer stores: one update over all the bytes
XxHash64(data) == XxHashFinalize(XxHashUpdate(XxHashDefault, data))

(***************************************************************************)
(* The file format, as far as FileReaderV2Builder::build reads it.         *)
(* fff_format::POSTSCRIPT_SIZE, read_postscript, root_as_footer and        *)
(* parse_footer are code of other files; they follow the format            *)
(* description: the postscript is the last POSTSCRIPT_SIZE bytes and holds *)
(* magic, version, footer_size u32, metadata_size u32, data_checksum u64,  *)
(* checksum_type u8 and padding, integers little-endian.                   *)
(***************************************************************************)
POSTSCRIPT_SIZE == 32

\* the literal of builder.rs:136 and :140
ReadAheadReserved == 32

\* the literal of builder.rs:203
BatchColumnLimit == 100

\* v.to_le_bytes() of an integer that is n bytes wide
ToLeBytes(v, n) ==
    [i \in 1..n |-> (v \div Pow2(ByteBits * (i - 1))) % Pow2(ByteBits)]

\* from_le_bytes(s)
RECURSIVE FromLeBytes(_)
FromLeBytes(s) ==
    IF s = << >> THEN 0 ELSE Head(s) + Pow2(ByteBits) * FromLeBytes(Tail(s))

\* where the fields of the postscript start (0-based) and how long they are
PostscriptLayout ==
    [magic         |-> [at |-> 0,  len |-> 2],
     version       |-> [at |-> 2,  len |-> 2],
     footer_size   |-> [at |-> 4,  len |-> 4],
     metadata_size |-> [at |-> 8,  len |-> 4],
     data_checksum |-> [at |-> 12, len |-> 8],
     checksum_type |-> [at |-> 20, len |-> 1],
     padding       |-> [at |-> 21, len |-> POSTSCRIPT_SIZE - 21]]

Field(b, fld) ==
    SubSeq(b, PostscriptLayout[fld].at + 1,
              PostscriptLayout[fld].at + PostscriptLayout[fld].len)

MAGIC == << 1, 3 >>

FORMAT_VERSION == << 1, 0 >>

\* the bytes a writer emits for a postscript
EncodePostscript(ps) ==
    MAGIC \o FORMAT_VERSION
      \o ToLeBytes(ps.footer_size, 4) \o ToLeBytes(ps.metadata_size, 4)
      \o ToLeBytes(ps.data_checksum, 8) \o << ps.checksum_tag >>
      \o Zeros(PostscriptLayout.padding.len)

NoPostscript ==
    [footer_size |-> 0, metadata_size |-> 0, data_checksum |-> 0,
     checksum_tag |-> 0, checksum_type |-> ""]

PsOk(ps) == [ok |-> TRUE, err |-> NoError, ps |-> ps]

PsErr(e) == [ok |-> FALSE, err |-> e, ps |-> NoPostscript]

\* the fields of a postscript of b, the POSTSCRIPT_SIZE bytes read
DecodePostscript(b) ==
    LET tag == ChecksumTypeTryFrom(Field(b, "checksum_type")[1])
    IN IF ~tag.ok
       THEN PsErr(tag.err)
       ELSE PsOk([footer_size   |-> FromLeBytes(Field(b, "footer_size")),
                  metadata_size |-> FromLeBytes(Field(b, "metadata_size")),
                  data_checksum |-> FromLeBytes(Field(b, "data_checksum")),
                  checksum_tag  |-> Field(b, "checksum_type")[1],
                  checksum_type |-> tag.val])

\* read_postscript(reader, size) on an in-memory reader: the last
\* POSTSCRIPT_SIZE bytes, decoded; an error when there are not that many
ReadPostscript(data, size) ==
    IF size < POSTSCRIPT_SIZE
    THEN PsErr(General(<< "File too small for postscript" >>))
    ELSE LET rd == SliceReadExactAt(data, Zeros(POSTSCRIPT_SIZE),
                                    size - POSTSCRIPT_SIZE)
         IN IF ~rd.ok THEN PsErr(rd.err) ELSE DecodePostscript(rd.buf)

(***************************************************************************)
(* Files.  A file is its bytes, the bytes root_as_footer accepts, and what *)
(* the footer says once parsed.  A well-formed file of a given shape holds *)
(* data_len bytes of column chunks, then one column metadata of meta_len   *)
(* bytes per row group and column, then the footer, then the postscript.   *)
(***************************************************************************)
\* the byte a writer put at position i (0-based) before the postscript
ContentByte(i) == (i + (i \div 4) + (i \div 16)) % Pow2(ByteBits)

RegionLen(shape) == shape.n_rg * shape.n_cols * shape.meta_len

BodyLen(shape) == shape.data_len + RegionLen(shape) + shape.footer_len

\* fb::ColumnMetaPointer of column j of row group i (both 1-based)
ColumnMetaPointer(shape, i, j) ==
    [offset |-> shape.data_len
                  + ((i - 1) * shape.n_cols + (j - 1)) * shape.meta_len,
     size   |-> shape.meta_len]

\* fb::OptionalMetadataSections: one section per name
Sections(names) ==
    [names             |-> Some(names),
     offsets           |-> Some([i \in 1..Len(names) |-> i - 1]),
     sizes             |-> Some([i \in 1..Len(names) |-> 1]),
     compression_types |-> Some([i \in 1..Len(names) |-> "Uncompressed"])]

\* what parse_footer and the flatbuffers accessors return for the footer
\* a writer emits for a file of this shape
FooterOf(shape) ==
    [row_group_metadatas |->
         Some([i \in 1..shape.n_rg |->
                 [col_metadatas |->
                      Some([j \in 1..shape.n_cols |->
                              ColumnMetaPointer(shape, i, j)])]]),
     row_counts        |-> Some([i \in 1..shape.n_rg |-> 10 * i]),
     offsets           |-> Some([i \in 1..shape.n_rg |-> i - 1]),
     sizes             |-> Some([i \in 1..shape.n_rg |-> 1]),
     shared_dict_table |-> None,
     optional_sections |-> None]

PostscriptOf(shape, body) ==
    [footer_size   |-> shape.footer_len,
     metadata_size |-> RegionLen(shape) + shape.footer_len,
     data_checksum |-> XxHash64(body),
     checksum_tag  |-> ChecksumTypeAsU8("XxHash"),
     checksum_type |-> "XxHash"]

\* the file a writer emits for this shape
WellFormed(shape) ==
    LET body == [i \in 1..BodyLen(shape) |-> ContentByte(i - 1)]
    IN [body         |-> body,
        ps           |-> PostscriptOf(shape, body),
        footer_bytes |-> SubSeq(body, BodyLen(shape) - shape.footer_len + 1,
                                BodyLen(shape)),
        root_ok      |-> TRUE,
        parse_ok     |-> TRUE,
        footer       |-> FooterOf(shape),
        \* whether some column is encoded with a decoder that is not
        \* built in; build does not look at it
        requires_decoder |-> FALSE]

\* one bit of a byte inverted
FlipBit(byte, k) ==
    IF (byte \div Pow2(k)) % 2 = 1 THEN byte - Pow2(k) ELSE byte + Pow2(k)

\* the bytes with bit k of the byte at position p (0-based) inverted
FlipAt(bytes, p, k) == [bytes EXCEPT ![p + 1] = FlipBit(@, k)]

FileBytes(f) == f.body \o EncodePostscript(f.ps)

(***************************************************************************)
(* A checksum calculator in use (trait Checksum, common/checksum.rs:21-50).*)
(***************************************************************************)
\* the chunks a caller feeds
Chunks == UNION { [1..n -> SliceBytes] : n \in 0..MaxChunkLen }

\* lines 46-50: create_checksum(&ChecksumType::XxHash)
CreateChecksum ==
    /\ ck_state = XxHashDefault
    /\ ck_chunks = << >>
    /\ ck_digest = None

\* lines 33-35: checksum.update(data)
ChecksumUpdate(data) ==
    /\ Len(ck_chunks) < MaxUpdates
    /\ ck_state' = XxHashUpdate(ck_state, data)
    /\ ck_chunks' = Append(ck_chunks, data)
    /\ ck_digest' = None
    /\ UNCHANGED notChecksumVars

\* lines 37-39: checksum.finalize()
ChecksumFinalize ==
    /\ ~ck_digest.some
    /\ ck_digest' = Some(XxHashFinalize(ck_state))
    /\ UNCHANGED << ck_state, ck_chunks >>
    /\ UNCHANGED notChecksumVars

\* lines 41-43: checksum.reset()
ChecksumReset ==
    /\ ck_chunks # << >>
    /\ ck_state' = XxHashDefault
    /\ ck_chunks' = << >>
    /\ ck_digest' = None
    /\ UNCHANGED notChecksumVars

NextChecksum ==
    \/ \E data \in Chunks : ChecksumUpdate(data)
    \/ ChecksumFinalize
    \/ ChecksumReset

(***************************************************************************)
(* FileReaderV2Builder (reader/builder.rs).  The reader R is the in-memory *)
(* reader over the bytes of the file.                                      *)
(***************************************************************************)
ParseError(text) == [variant |-> "ParseError", text |-> text]

\* a - b on usize or u64: a panic when overflow checks are compiled in
\* (debug builds), the wrapped difference otherwise (release builds)
Sub(a, b) ==
    IF a >= b
    THEN [panicked |-> FALSE, val |-> a - b]
    ELSE IF overflow_checks
    THEN [panicked |-> TRUE, val |-> 0]
    ELSE [panicked |-> FALSE, val |-> a - b + UsizeMax + 1]

\* a - b - c, left to right
Sub2(a, b, c) ==
    LET d == Sub(a, b)
    IN IF d.panicked THEN d ELSE Sub(d.val, c)

\* vec![0; n] and MutableBuffer::from_len_zeroed(n): more than isize::MAX
\* bytes cannot be allocated
CanAllocate(n) == 2 * n <= UsizeMax

Min(a, b) == IF a < b THEN a ELSE b

\* a length that takes in the postscript as well
ChecksummedLenWholeFile(size) == Sub(size, 0)

\* line 94: the bytes the file checksum covers
ChecksummedLen(size) == Sub(size, POSTSCRIPT_SIZE)

\* a comparison that never finds a difference
ChecksumDiffersNever(checksum_in_ps, computed_checksum) == FALSE

\* line 102: checksum_in_ps != computed_checksum
ChecksumDiffers(checksum_in_ps, computed_checksum) ==
    checksum_in_ps # computed_checksum

ChecksumMismatch == General(<< "File level Checksum verification failed" >>)

\* how a stretch of build ends: it goes on with a value, returns an error or
\* panics; reads are the read_exact_at calls it issued to self.reader
StepOk(issued, val) ==
    [status |-> "ok", err |-> NoError, reads |-> issued, val |-> val]

StepErr(e, issued) ==
    [status |-> "err", err |-> e, reads |-> issued, val |-> << >>]

StepPanic(issued) ==
    [status |-> "panicked", err |-> NoError, reads |-> issued, val |-> << >>]

\* a read_exact_at issued to self.reader
ReadOf(offset, len) == [offset |-> offset, len |-> len]

\* lines 86-108: verify_file_checksum(file_size, checksum_in_ps, checksum_type)
VerifyFileChecksum(data, size, checksum_in_ps, checksum_type) ==
    LET len == ChecksummedLen(size)
    IN IF len.panicked \/ ~CanAllocate(len.val)
       THEN StepPanic(<< >>)
       ELSE LET rd == SliceReadExactAt(data, Zeros(len.val), 0)
                computed_checksum ==
                    XxHashFinalize(XxHashUpdate(XxHashDefault, rd.buf))
            IN IF rd.panicked
               THEN StepPanic(<< ReadOf(0, len.val) >>)
               ELSE IF ~rd.ok
               THEN StepErr(rd.err, << ReadOf(0, len.val) >>)
               ELSE IF ChecksumDiffers(checksum_in_ps, computed_checksum)
               THEN StepErr(ChecksumMismatch, << ReadOf(0, len.val) >>)
               ELSE StepOk(<< ReadOf(0, len.val) >>, << >>)

\* root_as_footer(bytes): the footer, when these are the bytes of one
RootAsFooter(f, bytes) == f.root_ok /\ bytes = f.footer_bytes

\* lines 136, 140: (DEFAULT_IOUNIT_SIZE - 32) as u32
ReadAheadCapacity == (DEFAULT_IOUNIT_SIZE - ReadAheadReserved) % (U32Max + 1)

\* line 136
FooterTooLarge(footer_size) == footer_size >= ReadAheadCapacity

FooterTooLargeError(footer_size) ==
    General(<< "Footer size ", ToString(footer_size),
               " exceeds read-ahead buffer capacity (max ",
               ToString(ReadAheadCapacity), ")" >>)

\* lines 196-201 and 203: ratio > 0.6 || total_columns <= 100, the ratio
\* being 1.0 for Projection::All and |projections| / total_columns otherwise
\* (a division by zero gives NaN or infinity, and NaN > 0.6 is false)
ReadAllMetadata(projections, columns) ==
    \/ columns <= BatchColumnLimit
    \/ projections.all
    \/ /\ columns > 0
       /\ 10 * Len(projections.idx) > 6 * columns

\* a slice of the right length taken from the start of the buffer
BytesSliceFromStart(b, begin, end) == Index(b, 0, end - begin)

\* Bytes::slice(begin..end): a panic unless begin <= end <= len
BytesSlice(b, begin, end) == Index(b, begin, end)

\* lines 111-120: the size of the file and the read-ahead buffer
OpenStep(data, read_ahead) ==
    LET size == SliceSize(data)
        len == Min(DEFAULT_IOUNIT_SIZE, size)
        rd == SliceReadExactAt(data, Zeros(len), size - len)
    IN IF ~read_ahead
       THEN StepOk(<< >>, [file_size |-> size, read_ahead_buffer |-> << >>])
       ELSE IF rd.panicked
       THEN StepPanic(<< ReadOf(size - len, len) >>)
       ELSE IF ~rd.ok
       THEN StepErr(rd.err, << ReadOf(size - len, len) >>)
       ELSE StepOk(<< ReadOf(size - len, len) >>,
                   [file_size |-> size, read_ahead_buffer |-> rd.buf])

\* a postscript step that always goes to the reader
PostscriptStepFromReader(data, read_ahead, size, ra_buffer) ==
    LET res == ReadPostscript(data, SliceSize(data))
        issued == IF SliceSize(data) < POSTSCRIPT_SIZE
                 THEN << >>
                 ELSE << ReadOf(SliceSize(data) - POSTSCRIPT_SIZE,
                                POSTSCRIPT_SIZE) >>
    IN IF res.ok THEN StepOk(issued, res.ps) ELSE StepErr(res.err, issued)

\* lines 121-125: the postscript, from the read-ahead buffer or the reader
PostscriptStep(data, read_ahead, size, ra_buffer) ==
    LET res == IF read_ahead
               THEN ReadPostscript(ra_buffer, Len(ra_buffer))
               ELSE ReadPostscript(data, size)
        issued == IF read_ahead \/ size < POSTSCRIPT_SIZE
                 THEN << >>
                 ELSE << ReadOf(size - POSTSCRIPT_SIZE, POSTSCRIPT_SIZE) >>
    IN IF res.ok THEN StepOk(issued, res.ps) ELSE StepErr(res.err, issued)

\* lines 126-133
VerifyStep(data, verify, size, ps) ==
    IF verify
    THEN VerifyFileChecksum(data, size, ps.data_checksum, ps.checksum_type)
    ELSE StepOk(<< >>, << >>)

RootError == ParseError(<< "Unable to get root as footer: ", "invalid flatbuffer" >>)

\* lines 134-157: the footer, from the read-ahead buffer or the reader
FooterStep(f, read_ahead, size, ra_buffer, ps) ==
    IF ~CanAllocate(ps.footer_size)
    THEN StepPanic(<< >>)
    ELSE IF read_ahead
    THEN IF FooterTooLarge(ps.footer_size)
         THEN StepErr(FooterTooLargeError(ps.footer_size), << >>)
         ELSE LET start == Sub2(Len(ra_buffer), POSTSCRIPT_SIZE, ps.footer_size)
                  end == Sub(Len(ra_buffer), POSTSCRIPT_SIZE)
                  view == Index(ra_buffer, start.val, end.val)
              IN IF start.panicked \/ end.panicked \/ view.panicked
                 THEN StepPanic(<< >>)
                 ELSE IF RootAsFooter(f, view.bytes)
                 THEN StepOk(<< >>, f.footer)
                 ELSE StepErr(RootError, << >>)
    ELSE LET offset == Sub2(size, POSTSCRIPT_SIZE, ps.footer_size)
             rd == SliceReadExactAt(f.bytes, Zeros(ps.footer_size), offset.val)
             issued == << ReadOf(offset.val, ps.footer_size) >>
         IN IF offset.panicked
            THEN StepPanic(<< >>)
            ELSE IF rd.panicked
            THEN StepPanic(issued)
            ELSE IF ~rd.ok
            THEN StepErr(rd.err, issued)
            ELSE IF RootAsFooter(f, rd.buf)
            THEN StepOk(issued, f.footer)
            ELSE StepErr(RootError, issued)

\* flatbuffers::Vector::get(idx): asserts idx < len
VectorGetPanics(v, idx) == idx >= Len(v)

\* itertools::izip!(a, b, c): as long as the shortest
Izip(a, b, c) ==
    [i \in 1..Min(Len(a), Min(Len(b), Len(c))) |->
        [row_count |-> a[i], offset |-> b[i], size |-> c[i]]]

\* lines 159-195: parse_footer, the number of columns, the row groups
RowGroupsStep(f, footer) ==
    IF ~f.parse_ok
    THEN StepErr(ParseError(<< "Unable to parse footer" >>), << >>)
    ELSE IF ~footer.row_group_metadatas.some
    THEN StepErr(ParseError(<< "Row group metadatas not found in footer" >>), << >>)
    ELSE IF VectorGetPanics(footer.row_group_metadatas.v, 0)
    THEN StepPanic(<< >>)
    ELSE IF ~footer.row_group_metadatas.v[1].col_metadatas.some
    THEN StepErr(ParseError(<< "Column metadatas not found in first row group" >>), << >>)
    ELSE IF ~footer.row_counts.some
    THEN StepErr(ParseError(<< "Row counts not found in row groups pointer" >>), << >>)
    ELSE IF ~footer.offsets.some
    THEN StepErr(ParseError(<< "Offsets not found in row groups pointer" >>), << >>)
    ELSE IF ~footer.sizes.some
    THEN StepErr(ParseError(<< "Sizes not found in row groups pointer" >>), << >>)
    ELSE StepOk(<< >>,
           [total_columns |-> Len(footer.row_group_metadatas.v[1].col_metadatas.v),
            row_group_cnt_n_pointers |->
                Izip(footer.row_counts.v, footer.offsets.v, footer.sizes.v)])

\* lines 203-222: the whole column metadata region in one read, or nothing
MetadataStep(data, projections, read_ahead, size, ra_buffer, ps, columns) ==
    IF ~ReadAllMetadata(projections, columns)
    THEN StepOk(<< >>, None)
    ELSE LET len == Sub(ps.metadata_size, ps.footer_size)
             offset == IF read_ahead
                       THEN Sub2(Len(ra_buffer), POSTSCRIPT_SIZE, ps.metadata_size)
                       ELSE Sub2(size, POSTSCRIPT_SIZE, ps.metadata_size)
             rd == SliceReadExactAt(IF read_ahead THEN ra_buffer ELSE data,
                                    Zeros(len.val), offset.val)
             issued == IF read_ahead
                      THEN << >>
                      ELSE << ReadOf(offset.val, len.val) >>
         IN IF len.panicked \/ ~CanAllocate(len.val) \/ offset.panicked
            THEN StepPanic(<< >>)
            ELSE IF rd.panicked
            THEN StepPanic(issued)
            ELSE IF ~rd.ok
            THEN StepErr(rd.err, issued)
            ELSE StepOk(issued, Some(rd.buf))

\* the index of the first step that does not go on, 0 when all do
FirstFailure(steps) ==
    IF \E i \in 1..Len(steps) : steps[i].status # "ok"
    THEN CHOOSE i \in 1..Len(steps) :
            /\ steps[i].status # "ok"
            /\ \A j \in 1..(i - 1) : steps[j].status = "ok"
    ELSE 0

\* the reads of the steps lo..hi, in order
RECURSIVE ReadsOf(_, _, _)
ReadsOf(steps, lo, hi) ==
    IF lo > hi
    THEN << >>
    ELSE IF lo = hi
    THEN steps[lo].reads
    ELSE ReadsOf(steps, lo, (lo + hi) \div 2)
           \o ReadsOf(steps, (lo + hi) \div 2 + 1, hi)

\* a loop whose iterations are the steps: it stops at the first `?` that
\* returns or the first panic, and collects the values otherwise
InOrder(steps) ==
    LET k == FirstFailure(steps)
    IN IF k = 0
       THEN StepOk(ReadsOf(steps, 1, Len(steps)),
                   [i \in 1..Len(steps) |-> steps[i].val])
       ELSE [status |-> steps[k].status, err |-> steps[k].err,
             reads |-> ReadsOf(steps, 1, k), val |-> << >>]

\* the pointers of all columns, whatever the projection
ColumnMetaPtrsAll(projections, col_metadatas) ==
    [panicked |-> FALSE, ptrs |-> col_metadatas]

\* lines 232-241: the pointers of the projected columns
ColumnMetaPtrs(projections, col_metadatas) ==
    IF projections.all
    THEN [panicked |-> FALSE, ptrs |-> col_metadatas]
    ELSE IF \E k \in 1..Len(projections.idx) :
               VectorGetPanics(col_metadatas, projections.idx[k])
    THEN [panicked |-> TRUE, ptrs |-> << >>]
    ELSE [panicked |-> FALSE,
          ptrs |-> [k \in 1..Len(projections.idx) |->
                       col_metadatas[projections.idx[k] + 1]]]

\* lines 243-263: the buffer of one column metadata
PointerStep(data, all_buffer, size, ps, ptr) ==
    IF ~all_buffer.some
    THEN LET rd == SliceReadExactAt(data, Zeros(ptr.size), ptr.offset)
             issued == << ReadOf(ptr.offset, ptr.size) >>
         IN IF rd.panicked
            THEN StepPanic(issued)
            ELSE IF ~rd.ok
            THEN StepErr(rd.err, issued)
            ELSE StepOk(issued, rd.buf)
    ELSE LET data_size == Sub2(size, POSTSCRIPT_SIZE, ps.metadata_size)
             begin == Sub(ptr.offset, data_size.val)
             end == begin.val + ptr.size
             view == BytesSlice(all_buffer.v, begin.val,
                                end % (UsizeMax + 1))
         IN IF \/ data_size.panicked
               \/ begin.panicked
               \/ overflow_checks /\ end > UsizeMax
               \/ view.panicked
            THEN StepPanic(<< >>)
            ELSE StepOk(<< >>, view.bytes)

\* lines 227-265: the buffers of one row group
RowGroupStep(data, projections, all_buffer, size, ps, rg_meta) ==
    IF ~rg_meta.col_metadatas.some
    THEN StepErr(ParseError(<< "Column metadatas not found in row group" >>), << >>)
    ELSE LET sel == ColumnMetaPtrs(projections, rg_meta.col_metadatas.v)
         IN IF sel.panicked
            THEN StepPanic(<< >>)
            ELSE InOrder([k \in 1..Len(sel.ptrs) |->
                            PointerStep(data, all_buffer, size, ps,
                                        sel.ptrs[k])])

\* lines 223-266: grouped_column_metadata_buffers
ColumnMetadataStep(data, projections, all_buffer, size, ps, footer) ==
    IF ~footer.row_group_metadatas.some
    THEN StepErr(ParseError(<< "Row group metadatas not found" >>), << >>)
    ELSE InOrder([i \in 1..Len(footer.row_group_metadatas.v) |->
                    RowGroupStep(data, projections, all_buffer, size,
                                 ps, footer.row_group_metadatas.v[i])])

\* names.iter().position(|v| v == name), 0-based
Position(names, name) ==
    IF \E i \in 1..Len(names) : names[i] = name
    THEN Some((CHOOSE i \in 1..Len(names) :
                  /\ names[i] = name
                  /\ \A j \in 1..(i - 1) : names[j] # name) - 1)
    ELSE None

\* lines 267-309: the decoder registry the reader gets
WasmContextStep(wasm_rts, optional_sections) ==
    IF wasm_rts.some
    THEN StepOk(<< >>, Some([kind |-> "injected", rts |-> wasm_rts.v,
                             locations |-> NoneOpt]))
    ELSE IF ~optional_sections.some
    THEN StepOk(<< >>, None)
    ELSE LET s == optional_sections.v
             pos == Position(s.names.v, "WASMBinaries")
         IN IF ~s.names.some
            THEN StepErr(ParseError(<< "Optional section names not found" >>), << >>)
            ELSE IF ~pos.some
            THEN StepErr(General(<< "WASMBinaries section not found in optional sections" >>), << >>)
            ELSE IF ~s.offsets.some
            THEN StepErr(ParseError(<< "Optional section offsets not found" >>), << >>)
            ELSE IF ~s.sizes.some
            THEN StepErr(ParseError(<< "Optional section sizes not found" >>), << >>)
            ELSE IF ~s.compression_types.some
            THEN StepErr(ParseError(<< "Optional section compression types not found" >>), << >>)
            ELSE IF \/ VectorGetPanics(s.offsets.v, pos.v)
                    \/ VectorGetPanics(s.sizes.v, pos.v)
                    \/ VectorGetPanics(s.compression_types.v, pos.v)
            THEN StepPanic(<< >>)
            ELSE StepOk(<< >>,
                   Some([kind |-> "file", rts |-> EmptyMap,
                         locations |-> SomeSection(s.offsets.v[pos.v + 1],
                                                   s.sizes.v[pos.v + 1])]))

\* a step that leaves the dictionaries to be read when they are asked for
SharedDictionaryStepLazy(shared_dict_table, context) == StepOk(<< >>, None)

\* lines 310-317: SharedDictionaryCache::try_new_read_all, which reads and
\* decodes every shared dictionary of the table, or fails
SharedDictionaryStep(shared_dict_table, context) ==
    IF ~shared_dict_table.some
    THEN StepOk(<< >>, None)
    ELSE IF shared_dict_table.v.readable
    THEN StepOk(<< >>, Some([dicts |-> shared_dict_table.v.dicts,
                             wasm_context |-> context]))
    ELSE StepErr(General(<< "Unable to read shared dictionaries" >>), << >>)

(***************************************************************************)
(* The files and builders of SpecBuild.                                    *)
(***************************************************************************)
\* shapes of well-formed files: two small ones, one that is longer than
\* DEFAULT_IOUNIT_SIZE, one with more than BatchColumnLimit columns, and
\* three whose footers are one byte shorter than, as long as, and one byte
\* longer than what the read-ahead buffer holds besides the postscript
Shapes ==
    { [n_rg |-> 1, n_cols |-> 2, meta_len |-> 2, data_len |-> 3, footer_len |-> 2],
      [n_rg |-> 2, n_cols |-> 2, meta_len |-> 2, data_len |-> 3, footer_len |-> 2],
      [n_rg |-> 1, n_cols |-> 2, meta_len |-> 2,
       data_len |-> DEFAULT_IOUNIT_SIZE - POSTSCRIPT_SIZE, footer_len |-> 2],
      [n_rg |-> 1, n_cols |-> BatchColumnLimit + 1, meta_len |-> 1,
       data_len |-> 3, footer_len |-> 2] }
    \cup { [n_rg |-> 1, n_cols |-> 1, meta_len |-> 1, data_len |-> 1,
            footer_len |-> DEFAULT_IOUNIT_SIZE - POSTSCRIPT_SIZE + d] :
              d \in {-1, 0, 1} }

\* the shapes the damaged files are made from
SmallShapes == { s \in Shapes : s.data_len = 3 /\ s.n_cols = 2 }

\* ways in which a file differs from what a writer emits
Defects ==
    { "zero_row_groups", "no_row_group_metadatas", "no_col_metadatas_first",
      "no_col_metadatas_last", "no_row_counts", "no_offsets", "no_sizes",
      "short_row_counts", "pointer_before_region", "pointer_past_file",
      "metadata_lt_footer", "footer_gt_file", "metadata_gt_file",
      "footer_huge", "bad_tag", "corrupt_chunk", "corrupt_footer",
      "unparsable_footer", "truncated", "sections_other", "sections_wasm",
      "sections_no_names", "sections_no_offsets", "dict", "dict_unreadable",
      "custom_encoding", "custom_encoding_sections_other",
      "custom_encoding_sections_wasm" }

Damaged(w, defect) ==
    CASE defect = "zero_row_groups" ->
           [w EXCEPT !.footer.row_group_metadatas = Some(<< >>),
                     !.footer.row_counts = Some(<< >>),
                     !.footer.offsets = Some(<< >>),
                     !.footer.sizes = Some(<< >>)]
      [] defect = "no_row_group_metadatas" ->
           [w EXCEPT !.footer.row_group_metadatas = None]
      [] defect = "no_col_metadatas_first" ->
           [w EXCEPT !.footer.row_group_metadatas.v[1].col_metadatas = None]
      [] defect = "no_col_metadatas_last" ->
           [w EXCEPT !.footer.row_group_metadatas.v
                        [Len(w.footer.row_group_metadatas.v)].col_metadatas = None]
      [] defect = "no_row_counts" -> [w EXCEPT !.footer.row_counts = None]
      [] defect = "no_offsets" -> [w EXCEPT !.footer.offsets = None]
      [] defect = "no_sizes" -> [w EXCEPT !.footer.sizes = None]
      [] defect = "short_row_counts" ->
           [w EXCEPT !.footer.row_counts =
                        Some(SubSeq(@.v, 1, Len(@.v) - 1))]
      [] defect = "pointer_before_region" ->
           [w EXCEPT !.footer.row_group_metadatas.v[1].col_metadatas.v[1].offset = 0]
      [] defect = "pointer_past_file" ->
           [w EXCEPT !.footer.row_group_metadatas.v[1].col_metadatas.v[1].offset =
                        Len(w.body) + POSTSCRIPT_SIZE - 1]
      [] defect = "metadata_lt_footer" ->
           [w EXCEPT !.ps.metadata_size = w.ps.footer_size - 1]
      [] defect = "footer_gt_file" ->
           [w EXCEPT !.ps.footer_size = Len(w.body) + 1]
      [] defect = "metadata_gt_file" ->
           [w EXCEPT !.ps.metadata_size = Len(w.body) + 1]
      [] defect = "footer_huge" ->
           [w EXCEPT !.ps.footer_size = U32Max, !.ps.metadata_size = U32Max]
      [] defect = "bad_tag" -> [w EXCEPT !.ps.checksum_tag = 1]
      [] defect = "corrupt_chunk" -> [w EXCEPT !.body = FlipAt(@, 0, 0)]
      [] defect = "corrupt_footer" -> [w EXCEPT !.root_ok = FALSE]
      [] defect = "unparsable_footer" -> [w EXCEPT !.parse_ok = FALSE]
      [] defect = "sections_other" ->
           [w EXCEPT !.footer.optional_sections = Some(Sections(<< "Statistics" >>))]
      [] defect = "sections_wasm" ->
           [w EXCEPT !.footer.optional_sections =
                        Some(Sections(<< "Statistics", "WASMBinaries" >>))]
      [] defect = "sections_no_names" ->
           [w EXCEPT !.footer.optional_sections =
                        Some([Sections(<< "WASMBinaries" >>) EXCEPT !.names = None])]
      [] defect = "sections_no_offsets" ->
           [w EXCEPT !.footer.optional_sections =
                        Some([Sections(<< "WASMBinaries" >>) EXCEPT !.offsets = None])]
      [] defect = "dict" ->
           [w EXCEPT !.footer.shared_dict_table =
                        Some([readable |-> TRUE, dicts |-> 1])]
      [] defect = "dict_unreadable" ->
           [w EXCEPT !.footer.shared_dict_table =
                        Some([readable |-> FALSE, dicts |-> 1])]
      [] defect = "custom_encoding" -> [w EXCEPT !.requires_decoder = TRUE]
      [] defect = "custom_encoding_sections_other" ->
           [w EXCEPT !.requires_decoder = TRUE,
                     !.footer.optional_sections = Some(Sections(<< "Statistics" >>))]
      [] defect = "custom_encoding_sections_wasm" ->
           [w EXCEPT !.requires_decoder = TRUE,
                     !.footer.optional_sections =
                        Some(Sections(<< "Statistics", "WASMBinaries" >>))]
      [] OTHER -> w

NoFlip == [at |-> -1, bit |-> 0]

\* the file of an origin: a shape, a defect or "none", a flipped bit, and the
\* checksum tag byte of the postscript when it is not the writer's
MakeFile(o) ==
    LET d == Damaged(WellFormed(o.shape), o.defect)
        w == IF o.tag = 0 THEN d ELSE [d EXCEPT !.ps.checksum_tag = o.tag]
        whole == FileBytes(w)
        cut == IF o.defect = "truncated"
               THEN SubSeq(whole, Len(whole) - 9, Len(whole))
               ELSE whole
    IN [bytes        |-> IF o.flip.at < 0 THEN cut
                         ELSE FlipAt(cut, o.flip.at, o.flip.bit),
        footer_bytes |-> w.footer_bytes,
        root_ok      |-> w.root_ok,
        parse_ok     |-> w.parse_ok,
        footer       |-> w.footer,
        requires_decoder |-> w.requires_decoder]

FileLen(shape) == BodyLen(shape) + POSTSCRIPT_SIZE

FirstSmallShape ==
    CHOOSE s \in SmallShapes : s.n_rg = 1

Origins ==
    { [shape |-> s, defect |-> "none", flip |-> NoFlip, tag |-> 0] :
         s \in Shapes }
    \cup { [shape |-> s, defect |-> d, flip |-> NoFlip, tag |-> 0] :
              s \in SmallShapes, d \in Defects }
    \cup { [shape |-> s, defect |-> "none", tag |-> 0,
            flip |-> [at |-> FileLen(s) - POSTSCRIPT_SIZE + p, bit |-> k]] :
              s \in SmallShapes,
              p \in 0..(POSTSCRIPT_SIZE - 1), k \in 0..(ByteBits - 1) }
    \cup { [shape |-> FirstSmallShape, defect |-> "none", flip |-> NoFlip,
            tag |-> t] : t \in Bytes \ {0} }

\* Projection::All, or Projection::LeafColumnIndexes(idx)
ProjectionAll == [all |-> TRUE, idx |-> << >>]

LeafColumnIndexes(idx) == [all |-> FALSE, idx |-> idx]

\* the first n columns
FirstColumns(n) == LeafColumnIndexes([k \in 1..n |-> k - 1])

\* the smallest projection that is more than 0.6 of BatchColumnLimit + 1
\* columns
DenseProjection == FirstColumns((6 * (BatchColumnLimit + 1)) \div 10 + 1)

Projections ==
    { ProjectionAll, LeafColumnIndexes(<< >>), LeafColumnIndexes(<< 0 >>),
      LeafColumnIndexes(<< 1, 0 >>), LeafColumnIndexes(<< 2 >>),
      DenseProjection }

\* lines 34-84: the builders new and the with_ methods make
Builders ==
    [projections : Projections,
     read_ahead : BOOLEAN,
     wasm_rts : { None, Some([i \in {0} |-> InjectedRuntime(i)]) },
     verify_io_unit_checksum : {FALSE},
     verify_file_checksum : BOOLEAN]

(***************************************************************************)
(* FileReaderV2Builder::new and the with_ methods, lines 34-84.  Each      *)
(* method takes the builder by value and returns it, with_selection inside *)
(* a Result: after an error there is no builder left to go on with.        *)
(***************************************************************************)
\* Selection::All, or Selection::RowIndexes(row_indexes)
SelectionAll == [kind |-> "All", row_indexes |-> << >>]

RowIndexes(row_indexes) == [kind |-> "RowIndexes", row_indexes |-> row_indexes]

\* the groups of row indexes a caller selects
RowIndexGroups == { << 0 >>, << 1, 2 >> }

Selections ==
    { SelectionAll }
    \cup { RowIndexes(g) :
             g \in UNION { [1..n -> RowIndexGroups] : n \in 0..MaxGroups } }

\* a selection with_selection takes, accepting zero groups too
SelectionAtMostOneGroup(selection) ==
    selection.kind = "RowIndexes" => Len(selection.row_indexes) <= 1

\* lines 52-58: anything but RowIndexes with row_indexes.len() != 1
SelectionSupported(selection) ==
    selection.kind = "RowIndexes" => Len(selection.row_indexes) = 1

OnlyOneRowIndex ==
    General(<< "Only one row index is supported for experiment purposes" >>)

NoBuilder == [moved |-> TRUE]

\* Ok(self), or Err(e)
SetterOk == [ok |-> TRUE, err |-> NoError]

SetterErr(e) == [ok |-> FALSE, err |-> e]

NoCall == [method |-> "new", arg |-> << >>]

\* lines 34-44: FileReaderV2Builder::new(reader)
NewBuilder ==
    /\ fluent_builder = [projections |-> ProjectionAll,
                         selection |-> SelectionAll,
                         read_ahead |-> FALSE,
                         wasm_rts |-> None,
                         verify_io_unit_checksum |-> FALSE,
                         verify_file_checksum |-> FALSE]
    /\ last_call = NoCall
    /\ setter_result = SetterOk
    /\ setters_applied = 0

\* a method can be called: the last one returned a builder
CanCall == setter_result.ok /\ setters_applied < MaxSetters

\* the method returns the builder `next`
Called(method, arg, next) ==
    /\ CanCall
    /\ fluent_builder' = next
    /\ last_call' = [method |-> method, arg |-> arg]
    /\ setter_result' = SetterOk
    /\ setters_applied' = setters_applied + 1
    /\ UNCHANGED notSetterVars

\* lines 46-49
WithProjections(projections) ==
    Called("with_projections", projections,
           [fluent_builder EXCEPT !.projections = projections])

\* lines 51-61
WithSelection(selection) ==
    IF SelectionSupported(selection)
    THEN Called("with_selection", selection,
                [fluent_builder EXCEPT !.selection = selection])
    ELSE /\ CanCall
         /\ fluent_builder' = NoBuilder
         /\ last_call' = [method |-> "with_selection", arg |-> selection]
         /\ setter_result' = SetterErr(OnlyOneRowIndex)
         /\ setters_applied' = setters_applied + 1
         /\ UNCHANGED notSetterVars

\* lines 63-66
WithReadAhead(read_ahead) ==
    Called("with_read_ahead", read_ahead,
           [fluent_builder EXCEPT !.read_ahead = read_ahead])

\* lines 69-72
WithExistingRuntimes(wasm_rts) ==
    Called("with_existing_runtimes", wasm_rts,
           [fluent_builder EXCEPT !.wasm_rts = Some(wasm_rts)])

\* lines 75-78
WithVerifyIoUnitChecksum(verify) ==
    Called("with_verify_io_unit_checksum", verify,
           [fluent_builder EXCEPT !.verify_io_unit_checksum = verify])

\* lines 81-84
WithVerifyFileChecksum(verify) ==
    Called("with_verify_file_checksum", verify,
           [fluent_builder EXCEPT !.verify_file_checksum = verify])

NextSetters ==
    \/ \E projections \in Projections : WithProjections(projections)
    \/ \E selection \in Selections : WithSelection(selection)
    \/ \E read_ahead \in BOOLEAN : WithReadAhead(read_ahead)
    \/ WithExistingRuntimes([i \in {0} |-> InjectedRuntime(i)])
    \/ \E verify \in BOOLEAN : WithVerifyIoUnitChecksum(verify)
    \/ \E verify \in BOOLEAN : WithVerifyFileChecksum(verify)

(***************************************************************************)
(* build(self), lines 110-331, one action per stretch of the function.     *)
(***************************************************************************)
BuildRunning == [status |-> "running", err |-> NoError]

buildInputs == << file, origin, builder, overflow_checks >>

\* the step ends this stretch: build goes on to `next`, or returns, or panics
Advance(step, next) ==
    /\ io' = io \o step.reads
    /\ stage' = IF step.status = "ok" THEN next ELSE "done"
    /\ build_result' = IF step.status = "ok"
                       THEN build_result
                       ELSE [status |-> step.status, err |-> step.err]
    /\ UNCHANGED buildInputs
    /\ UNCHANGED notBuildVars

BuildOpen ==
    /\ stage = "open"
    /\ LET step == OpenStep(file.bytes, builder.read_ahead)
       IN /\ Advance(step, "postscript")
          /\ file_size' = IF step.status = "ok" THEN step.val.file_size ELSE file_size
          /\ read_ahead_buffer' = IF step.status = "ok"
                                  THEN step.val.read_ahead_buffer
                                  ELSE read_ahead_buffer
    /\ UNCHANGED << post_script, footer_fbs, total_columns,
                    row_group_cnt_n_pointers, all_metadata_buffer,
                    grouped_column_metadata_buffers, wasm_context,
                    shared_dictionary_cache >>

BuildReadPostscript ==
    /\ stage = "postscript"
    /\ LET step == PostscriptStep(file.bytes, builder.read_ahead, file_size,
                                  read_ahead_buffer)
       IN /\ Advance(step, "verify")
          /\ post_script' = IF step.status = "ok" THEN step.val ELSE post_script
    /\ UNCHANGED << file_size, read_ahead_buffer, footer_fbs, total_columns,
                    row_group_cnt_n_pointers, all_metadata_buffer,
                    grouped_column_metadata_buffers, wasm_context,
                    shared_dictionary_cache >>

BuildVerifyFileChecksum ==
    /\ stage = "verify"
    /\ Advance(VerifyStep(file.bytes, builder.verify_file_checksum, file_size,
                          post_script), "footer")
    /\ UNCHANGED << file_size, read_ahead_buffer, post_script, footer_fbs,
                    total_columns, row_group_cnt_n_pointers,
                    all_metadata_buffer, grouped_column_metadata_buffers,
                    wasm_context, shared_dictionary_cache >>

BuildReadFooter ==
    /\ stage = "footer"
    /\ LET step == FooterStep(file, builder.read_ahead, file_size,
                              read_ahead_buffer, post_script)
       IN /\ Advance(step, "row_groups")
          /\ footer_fbs' = IF step.status = "ok" THEN Some(step.val) ELSE footer_fbs
    /\ UNCHANGED << file_size, read_ahead_buffer, post_script, total_columns,
                    row_group_cnt_n_pointers, all_metadata_buffer,
                    grouped_column_metadata_buffers, wasm_context,
                    shared_dictionary_cache >>

BuildRowGroups ==
    /\ stage = "row_groups"
    /\ LET step == RowGroupsStep(file, footer_fbs.v)
       IN /\ Advance(step, "metadata")
          /\ total_columns' = IF step.status = "ok"
                              THEN step.val.total_columns
                              ELSE total_columns
          /\ row_group_cnt_n_pointers' =
                 IF step.status = "ok"
                 THEN step.val.row_group_cnt_n_pointers
                 ELSE row_group_cnt_n_pointers
    /\ UNCHANGED << file_size, read_ahead_buffer, post_script, footer_fbs,
                    all_metadata_buffer, grouped_column_metadata_buffers,
                    wasm_context, shared_dictionary_cache >>

BuildReadMetadata ==
    /\ stage = "metadata"
    /\ LET step == MetadataStep(file.bytes, builder.projections,
                                builder.read_ahead, file_size,
                                read_ahead_buffer, post_script, total_columns)
       IN /\ Advance(step, "column_metadata")
          /\ all_metadata_buffer' = IF step.status = "ok"
                                    THEN step.val
                                    ELSE all_metadata_buffer
    /\ UNCHANGED << file_size, read_ahead_buffer, post_script, footer_fbs,
                    total_columns, row_group_cnt_n_pointers,
                    grouped_column_metadata_buffers, wasm_context,
                    shared_dictionary_cache >>

BuildColumnMetadata ==
    /\ stage = "column_metadata"
    /\ LET step == ColumnMetadataStep(file.bytes, builder.projections,
                                      all_metadata_buffer, file_size,
                                      post_script, footer_fbs.v)
       IN /\ Advance(step, "wasm_context")
          /\ grouped_column_metadata_buffers' =
                 IF step.status = "ok"
                 THEN step.val
                 ELSE grouped_column_metadata_buffers
    /\ UNCHANGED << file_size, read_ahead_buffer, post_script, footer_fbs,
                    total_columns, row_group_cnt_n_pointers,
                    all_metadata_buffer, wasm_context,
                    shared_dictionary_cache >>

BuildWasmContext ==
    /\ stage = "wasm_context"
    /\ LET step == WasmContextStep(builder.wasm_rts,
                                   footer_fbs.v.optional_sections)
       IN /\ Advance(step, "shared_dictionary")
          /\ wasm_context' = IF step.status = "ok" THEN step.val ELSE wasm_context
    /\ UNCHANGED << file_size, read_ahead_buffer, post_script, footer_fbs,
                    total_columns, row_group_cnt_n_pointers,
                    all_metadata_buffer, grouped_column_metadata_buffers,
                    shared_dictionary_cache >>

BuildSharedDictionary ==
    /\ stage = "shared_dictionary"
    /\ LET step == SharedDictionaryStep(footer_fbs.v.shared_dict_table,
                                        wasm_context)
       IN /\ Advance(step, "finish")
          /\ shared_dictionary_cache' = IF step.status = "ok"
                                        THEN step.val
                                        ELSE shared_dictionary_cache
    /\ UNCHANGED << file_size, read_ahead_buffer, post_script, footer_fbs,
                    total_columns, row_group_cnt_n_pointers,
                    all_metadata_buffer, grouped_column_metadata_buffers,
                    wasm_context >>

\* lines 318-330: Ok(FileReaderV2 { .. })
BuildFinish ==
    /\ stage = "finish"
    /\ stage' = "done"
    /\ build_result' = [status |-> "ok", err |-> NoError]
    /\ UNCHANGED << io, file_size, read_ahead_buffer, post_script, footer_fbs,
                    total_columns, row_group_cnt_n_pointers,
                    all_metadata_buffer, grouped_column_metadata_buffers,
                    wasm_context, shared_dictionary_cache >>
    /\ UNCHANGED buildInputs
    /\ UNCHANGED notBuildVars

\* the locals of a build that has not begun
IdleBuild ==
    /\ io = << >>
    /\ file_size = 0
    /\ read_ahead_buffer = << >>
    /\ post_script = NoPostscript
    /\ footer_fbs = None
    /\ total_columns = 0
    /\ row_group_cnt_n_pointers = << >>
    /\ all_metadata_buffer = None
    /\ grouped_column_metadata_buffers = << >>
    /\ wasm_context = None
    /\ shared_dictionary_cache = None
    /\ build_result = BuildRunning

\* no builder is made and build is not called
NoBuild ==
    /\ origin = [shape |-> FirstSmallShape, defect |-> "none", flip |-> NoFlip,
                 tag |-> 0]
    /\ file = MakeFile(origin)
    /\ builder = [projections |-> ProjectionAll, read_ahead |-> FALSE,
                  wasm_rts |-> None, verify_io_unit_checksum |-> FALSE,
                  verify_file_checksum |-> FALSE]
    /\ overflow_checks = TRUE
    /\ IdleBuild
    /\ stage = "done"

InitBuild ==
    /\ origin \in Origins
    /\ file = MakeFile(origin)
    /\ builder \in Builders
    /\ overflow_checks \in BOOLEAN
    /\ stage = "open"
    /\ IdleBuild

NextBuild ==
    \/ BuildOpen
    \/ BuildReadPostscript
    \/ BuildVerifyFileChecksum
    \/ BuildReadFooter
    \/ BuildRowGroups
    \/ BuildReadMetadata
    \/ BuildColumnMetadata
    \/ BuildWasmContext
    \/ BuildSharedDictionary
    \/ BuildFinish


\* a context nobody has constructed or called
IdleRegistry ==
    /\ ctx = "absent"
    /\ lazy_wasm = Uninit
    /\ wasm_locations = NoneOpt
    /\ r = FALSE
    /\ pc = [t \in Threads |-> "idle"]
    /\ wasm_id = [t \in Threads |-> 0]
    /\ init_local = [t \in Threads |-> [k |-> 0, wasms |-> EmptyMap]]
    /\ calls = 0
    /\ contended = FALSE
    /\ reads = << >>
    /\ compiles = 0
    /\ init_runs = 0
    /\ init_failure = "none"
    /\ returned = {}
    /\ last_ret = [id |-> 0, res |-> RetErr(NoError)]

InitRegistry ==
    /\ wasm_section \in WasmSections
    /\ IdleRegistry

NextRegistry ==
    \/ \E size \in {8} : NewWithVersions(64, size)
    \/ \E m \in InjectedMaps : NewWithRtAndVersions(m)
    \/ \E t \in Threads, id \in WasmIds : GetRuntimeCall(t, id)
    \/ \E t \in Threads : InitReadTable(t)
    \/ \E t \in Threads : InitLoadModule(t)
    \/ \E t \in Threads : InitFinish(t)
    \/ \E t \in Threads : WakeUp(t)
    \/ \E t \in Threads : GetRuntimeReturn(t)

(***************************************************************************)
(* The specifications: one per part, the other parts idle.                 *)
(***************************************************************************)
InitSpecRegistry ==
    /\ InitRegistry
    /\ slice = << >>
    /\ IdleSlice
    /\ NoBuild
    /\ CreateChecksum
    /\ NewBuilder
    /\ NewObjectStoreReadAt
    /\ NoWritingContext
    /\ NoConversion

SpecRegistry == InitSpecRegistry /\ [][NextRegistry]_vars

InitSpecSlice ==
    /\ InitSlice
    /\ IdleRegistry
    /\ wasm_section = [parse |-> "nolist", locs |-> << >>]
    /\ NoBuild
    /\ CreateChecksum
    /\ NewBuilder
    /\ NewObjectStoreReadAt
    /\ NoWritingContext
    /\ NoConversion

SpecSlice == InitSpecSlice /\ [][NextSlice]_vars

InitSpecBuild ==
    /\ InitBuild
    /\ IdleRegistry
    /\ wasm_section = [parse |-> "nolist", locs |-> << >>]
    /\ slice = << >>
    /\ IdleSlice
    /\ CreateChecksum
    /\ NewBuilder
    /\ NewObjectStoreReadAt
    /\ NoWritingContext
    /\ NoConversion

SpecBuild == InitSpecBuild /\ [][NextBuild]_vars

InitSpecChecksum ==
    /\ CreateChecksum
    /\ IdleRegistry
    /\ wasm_section = [parse |-> "nolist", locs |-> << >>]
    /\ slice = << >>
    /\ IdleSlice
    /\ NoBuild
    /\ NewBuilder
    /\ NewObjectStoreReadAt
    /\ NoWritingContext
    /\ NoConversion

SpecChecksum == InitSpecChecksum /\ [][NextChecksum]_vars

InitSpecSetters ==
    /\ NewBuilder
    /\ IdleRegistry
    /\ wasm_section = [parse |-> "nolist", locs |-> << >>]
    /\ slice = << >>
    /\ IdleSlice
    /\ NoBuild
    /\ CreateChecksum
    /\ NewObjectStoreReadAt
    /\ NoWritingContext
    /\ NoConversion

SpecSetters == InitSpecSetters /\ [][NextSetters]_vars

InitSpecObject ==
    /\ NewObjectStoreReadAt
    /\ IdleRegistry
    /\ wasm_section = [parse |-> "nolist", locs |-> << >>]
    /\ slice = << >>
    /\ IdleSlice
    /\ NoBuild
    /\ CreateChecksum
    /\ NewBuilder
    /\ NoWritingContext
    /\ NoConversion

SpecObject == InitSpecObject /\ [][NextObject]_vars

InitSpecWriter ==
    /\ NoWritingContext
    /\ IdleRegistry
    /\ wasm_section = [parse |-> "nolist", locs |-> << >>]
    /\ slice = << >>
    /\ IdleSlice
    /\ NoBuild
    /\ CreateChecksum
    /\ NewBuilder
    /\ NewObjectStoreReadAt
    /\ NoConversion

SpecWriter == InitSpecWriter /\ [][NextWriter]_vars

InitSpecBuffers ==
    /\ InitBuffers
    /\ IdleRegistry
    /\ wasm_section = [parse |-> "nolist", locs |-> << >>]
    /\ slice = << >>
    /\ IdleSlice
    /\ NoBuild
    /\ CreateChecksum
    /\ NewBuilder
    /\ NewObjectStoreReadAt
    /\ NoWritingContext

SpecBuffers == InitSpecBuffers /\ [][NextBuffers]_vars

(***************************************************************************)
(* Claims about the decoder registry, checked under SpecRegistry.          *)
(***************************************************************************)
AllReturned == \A t \in Threads : pc[t] = "idle"

Ready(cell) == cell.state = "Set" /\ cell.ok

Failed(cell) == cell.state = "Set" /\ ~cell.ok

InitFailedError(cell) ==
    General(<< "WASM initialization failed: " >> \o Display(cell.err))

NotFoundError(id) ==
    General(<< "WASM runtime not found for id: ", ToString(id) >>)

\* C1: once a get_runtime call has returned, the cell is set and never changes
\* again (no Ready->Failed, Failed->Ready or return to Uninit); on a Ready
\* registry every call for a present id returned the one runtime stored for
\* it; on a Failed registry every call, for every id, returned the same
\* error, whose message ends with the stored failure.
C1_Step ==
    /\ returned # {} => lazy_wasm.state = "Set" /\ lazy_wasm' = lazy_wasm
    /\ \A x \in returned', y \in returned' : x.id = y.id => x.res = y.res
    /\ Ready(lazy_wasm') =>
         \A x \in returned' :
           x.id \in DOMAIN lazy_wasm'.map =>
             x.res.ok /\ x.res.rt = lazy_wasm'.map[x.id]
    /\ Failed(lazy_wasm') =>
         \A x \in returned' :
           /\ ~x.res.ok
           /\ x.res.err = InitFailedError(lazy_wasm')
           /\ lazy_wasm'.err # NoError

C1_Sticky == [][C1_Step]_vars

\* two calls have returned from a registry whose first read failed
C1_Witness ==
    /\ AllReturned
    /\ calls >= 2
    /\ Failed(lazy_wasm)
    /\ lazy_wasm.err = IoFailure
    /\ returned # {}

\* C2: the init closure runs at most once on one registry, and after the first
\* get_runtime call has returned no further read_exact_at is issued and no
\* further runtime is compiled.
C2_Step ==
    /\ init_runs' <= 1
    /\ returned # {} =>
         /\ reads' = reads
         /\ compiles' = compiles
         /\ init_runs' = init_runs

C2_NoRetry == [][C2_Step]_vars

\* MaxCalls calls have returned from a from-file registry whose initialization
\* failed after it had read from the reader
C2_Witness ==
    /\ AllReturned
    /\ calls = MaxCalls
    /\ ctx = "file"
    /\ Failed(lazy_wasm)
    /\ Len(reads) >= 1
    /\ init_runs = 1

\* C3: with several threads inside get_runtime, the closure is entered by one
\* thread only; a thread reaches its lookup only once the cell is set; every
\* result returned is the lookup of the one stored outcome; and a stored map
\* is complete: it holds every locator of the table.
C3_Concurrent ==
    /\ init_runs <= 1
    /\ Cardinality({ t \in Threads : pc[t] \in {"init", "loop"} }) <= 1
    /\ \A t \in Threads : pc[t] = "lookup" => lazy_wasm.state = "Set"
    /\ returned # {} => lazy_wasm.state = "Set"
    /\ Ready(lazy_wasm) =>
         /\ \A x \in returned :
              IF x.id \in DOMAIN lazy_wasm.map
              THEN x.res.ok /\ x.res.rt = lazy_wasm.map[x.id]
              ELSE ~x.res.ok
         /\ ctx = "file" =>
              DOMAIN lazy_wasm.map = 0..(Len(wasm_section.locs) - 1)
    /\ Failed(lazy_wasm) =>
         \A x \in returned : x.res = RetErr(InitFailedError(lazy_wasm))

\* a thread called while another was inside the closure, and both have returned
C3_Witness ==
    /\ contended
    /\ AllReturned
    /\ init_runs = 1
    /\ calls >= 2
    /\ returned # {}

\* C4: when a step of the from-file initialization fails, the registry is
\* Failed, nothing of the map built so far is kept, and every get_runtime
\* call returns an error, also for the ids loaded before the failing step.
C4_AllOrNothing ==
    init_failure # "none" =>
      /\ Failed(lazy_wasm)
      /\ DOMAIN lazy_wasm.map = {}
      /\ \A x \in returned : ~x.res.ok /\ x.res.err = InitFailedError(lazy_wasm)

\* module 1 failed to compile after module 0 had been compiled, and
\* get_runtime(0) has returned an error
C4_Witness ==
    /\ init_failure = "module_compile"
    /\ compiles = 2
    /\ \E x \in returned : x.id = 0 /\ ~x.res.ok

\* C5: on a Ready registry a call for an id the map does not hold returns the
\* not-found error naming that id, the call leaves the cell as it is, and the
\* calls for the ids the map holds return their runtimes, before and after.
C5_Step ==
    /\ Ready(lazy_wasm) => lazy_wasm' = lazy_wasm
    /\ Ready(lazy_wasm') =>
         \A x \in returned' :
           IF x.id \in DOMAIN lazy_wasm'.map
           THEN x.res = RetOk(lazy_wasm'.map[x.id])
           ELSE x.res = RetErr(NotFoundError(x.id))

C5_NotFound == [][C5_Step]_vars

\* a Ready registry has answered a miss and, after it, a hit
C5_Witness ==
    /\ Ready(lazy_wasm)
    /\ AllReturned
    /\ \E x \in returned : x.id \notin DOMAIN lazy_wasm.map /\ ~x.res.ok
    /\ last_ret.id \in DOMAIN lazy_wasm.map
    /\ last_ret.res.ok

(***************************************************************************)
(* Claims about the in-memory reader, checked under SpecSlice.             *)
(***************************************************************************)
\* C7: a read_exact_at whose range [off, off + |buf|) ends past the slice
\* returns an error (the out-of-bounds error, or the overflow error when the
\* sum does not fit the machine word), does not panic, and leaves the
\* destination buffer as it was: nothing short or truncated is copied.
C7_OutOfBounds ==
    (rd_result.called /\ rd_offset + Len(buf_before) > Len(slice)) =>
      /\ ~rd_result.ok
      /\ ~rd_result.panicked
      /\ buf = buf_before
      /\ rd_result.err =
           IF rd_offset + Len(buf_before) > UsizeMax
           THEN OverflowError
           ELSE OutOfBoundsError(Len(buf_before), rd_offset, Len(slice))

\* a read that starts inside the slice and runs past its end was refused
C7_Witness ==
    /\ rd_result.called
    /\ rd_offset < Len(slice)
    /\ rd_offset + Len(buf_before) > Len(slice)
    /\ ~rd_result.ok
    /\ Len(buf_before) >= 2

\* C8: when offset + |buf| does not fit the machine word, read_exact_at
\* returns the overflow error: the sum is not wrapped into the slice, the
\* call does not succeed or panic, and no byte is copied.
C8_Overflow ==
    (rd_result.called /\ rd_offset + Len(buf_before) > UsizeMax) =>
      /\ ~rd_result.ok
      /\ ~rd_result.panicked
      /\ rd_result.err = OverflowError
      /\ buf = buf_before

\* a read whose wrapped end would lie inside the slice was refused
C8_Witness ==
    /\ rd_result.called
    /\ rd_offset + Len(buf_before) > UsizeMax
    /\ (rd_offset + Len(buf_before)) % (UsizeMax + 1) <= Len(slice)
    /\ rd_result.err = OverflowError

(***************************************************************************)
(* Claims about FileReaderV2Builder::build, checked under SpecBuild.       *)
(***************************************************************************)
\* the bytes the file checksum covers: all that precede the postscript
BytesBeforePostscript == SubSeq(file.bytes, 1, file_size - POSTSCRIPT_SIZE)

\* the read verify_file_checksum issues
ChecksumRead == ReadOf(0, file_size - POSTSCRIPT_SIZE)

Returned(e) == build_result = [status |-> "err", err |-> e]

\* the position of the flipped bit, counted from the start of the postscript
FlipInPostscript == origin.flip.at - (FileLen(origin.shape) - POSTSCRIPT_SIZE)

FlipInField(fld) ==
    /\ origin.flip.at >= 0
    /\ FlipInPostscript >= PostscriptLayout[fld].at
    /\ FlipInPostscript < PostscriptLayout[fld].at + PostscriptLayout[fld].len

\* C6: build never aborts: whatever the file and the builder, it returns Ok
\* or Err and does not panic.
C6_NeverAborts == build_result.status # "panicked"

\* C9: with verify_file_checksum enabled, the verification step reads exactly
\* bytes[0 .. file_size - POSTSCRIPT_SIZE], returns ChecksumMismatch if and
\* only if their checksum differs from the postscript's data_checksum, and
\* runs while no footer has been read or parsed; with verification disabled
\* the step issues no read and build goes on, no read of those bytes is ever
\* issued and build never returns ChecksumMismatch.
C9_Step ==
    stage = "verify" =>
        IF builder.verify_file_checksum
        THEN /\ io' = Append(io, ChecksumRead)
             /\ footer_fbs = None /\ footer_fbs' = None
             /\ IF post_script.data_checksum # XxHash64(BytesBeforePostscript)
                THEN stage' = "done" /\ Returned(ChecksumMismatch)'
                ELSE stage' = "footer" /\ build_result' = BuildRunning
        ELSE io' = io /\ stage' = "footer" /\ build_result' = BuildRunning

C9_Disabled ==
    ~builder.verify_file_checksum =>
        /\ ~Returned(ChecksumMismatch)
        /\ \A i \in 1..Len(io) : io[i] # ReadOf(0, Len(file.bytes) - POSTSCRIPT_SIZE)

C9_FileChecksum == [][C9_Step]_vars /\ []C9_Disabled

\* a corrupted column chunk is found before the footer is looked at
C9_Witness ==
    /\ stage = "done"
    /\ origin.defect = "corrupt_chunk"
    /\ builder.verify_file_checksum
    /\ Returned(ChecksumMismatch)
    /\ io[Len(io)] = ChecksumRead
    /\ footer_fbs = None

\* C10 as stated: a file a writer emitted, with one bit of any byte of its
\* postscript flipped, opened with verify_file_checksum enabled, is refused
\* with ChecksumMismatch.
C10_AnyPostscriptBit ==
    ( /\ stage = "done"
      /\ origin.defect = "none"
      /\ origin.flip.at >= 0
      /\ builder.verify_file_checksum )
    => Returned(ChecksumMismatch)

\* C10, amended: a file a writer emitted, with one bit of any byte of the
\* data_checksum field of its postscript flipped, opened with
\* verify_file_checksum enabled, is refused with ChecksumMismatch.
C10_ChecksumFieldBit ==
    ( /\ stage = "done"
      /\ origin.defect = "none"
      /\ FlipInField("data_checksum")
      /\ builder.verify_file_checksum )
    => Returned(ChecksumMismatch)

C10_Witness ==
    /\ stage = "done"
    /\ origin.defect = "none"
    /\ FlipInField("data_checksum")
    /\ FlipInPostscript = PostscriptLayout.data_checksum.at
                             + PostscriptLayout.data_checksum.len - 1
    /\ builder.verify_file_checksum
    /\ builder.read_ahead
    /\ Returned(ChecksumMismatch)

\* the checksum tag byte of the postscript of the file
TagByte ==
    file.bytes[Len(file.bytes) - POSTSCRIPT_SIZE
                 + PostscriptLayout.checksum_type.at + 1]

InvalidChecksumTag(v) == General(<< "Invalid checksum type: ", ToString(v) >>)

\* C11: the tag byte 0 decodes to XxHash, and XxHash written as a byte and
\* decoded again is XxHash; every other byte is refused with the invalid
\* checksum tag error, without a panic, and so is the file whose postscript
\* carries it.
C11_TagDecoding ==
    ( /\ stage \notin {"open", "postscript"}
      /\ Len(file.bytes) >= POSTSCRIPT_SIZE )
    => IF TagByte = 0
       THEN /\ post_script.checksum_type = "XxHash"
            /\ ChecksumTypeAsU8(post_script.checksum_type) = TagByte
            /\ ChecksumTypeTryFrom(ChecksumTypeAsU8(post_script.checksum_type))
                  = TagOk(post_script.checksum_type)
            /\ \A v \in Bytes : ~Returned(InvalidChecksumTag(v))
       ELSE /\ stage = "done"
            /\ Returned(InvalidChecksumTag(TagByte))
            /\ ChecksumTypeTryFrom(TagByte) = TagErr(InvalidChecksumTag(TagByte))

\* the largest byte as the tag of an otherwise well-formed file
C11_Witness ==
    /\ stage = "done"
    /\ origin.tag = Pow2(ByteBits) - 1
    /\ TagByte = origin.tag
    /\ Returned(InvalidChecksumTag(origin.tag))

(***************************************************************************)
(* Claims about the checksum calculator, checked under SpecChecksum.       *)
(***************************************************************************)
\* the chunks lo..hi laid end to end
RECURSIVE Concat(_, _, _)
Concat(chunks, lo, hi) ==
    IF lo > hi
    THEN << >>
    ELSE IF lo = hi
    THEN chunks[lo]
    ELSE Concat(chunks, lo, (lo + hi) \div 2)
           \o Concat(chunks, (lo + hi) \div 2 + 1, hi)

\* C12: however the bytes were split into updates, the calculator is in the
\* state one update with all the bytes end to end leaves a fresh calculator
\* in, and finalize returns the digest of those bytes; and there are two
\* chunks whose digest depends on the order they are fed in.
C12_Chunking ==
    /\ ck_state =
         XxHashUpdate(XxHashDefault, Concat(ck_chunks, 1, Len(ck_chunks)))
    /\ ck_digest.some =>
         ck_digest.v = XxHash64(Concat(ck_chunks, 1, Len(ck_chunks)))
    /\ \E a, b \in Chunks :
         XxHashFinalize(XxHashUpdate(XxHashUpdate(XxHashDefault, a), b))
           # XxHashFinalize(XxHashUpdate(XxHashUpdate(XxHashDefault, b), a))

\* two non-empty chunks were fed and finalized; fed the other way round they
\* give another digest
C12_Witness ==
    /\ Len(ck_chunks) = 2
    /\ ck_chunks[1] # << >> /\ ck_chunks[2] # << >>
    /\ ck_digest.some
    /\ ck_digest.v = XxHash64(ck_chunks[1] \o ck_chunks[2])
    /\ ck_digest.v # XxHash64(ck_chunks[2] \o ck_chunks[1])

(***************************************************************************)
(* Claims about the column metadata of a build, checked under SpecBuild.   *)
(***************************************************************************)
\* build has been through the loop of lines 226-266 and went on
ColumnMetadataRead ==
    \/ stage \in {"wasm_context", "shared_dictionary", "finish"}
    \/ stage = "done" /\ build_result.status = "ok"

\* the pointers of the footer, all row groups and columns
AllPointers ==
    IF ~footer_fbs.some \/ ~footer_fbs.v.row_group_metadatas.some
    THEN {}
    ELSE UNION { IF rg.col_metadatas.some
                 THEN { rg.col_metadatas.v[j] :
                          j \in 1..Len(rg.col_metadatas.v) }
                 ELSE {} :
                 rg \in { footer_fbs.v.row_group_metadatas.v[i] :
                            i \in 1..Len(footer_fbs.v.row_group_metadatas.v) } }

\* every column metadata lies in the column metadata region of the file,
\* [file_size - POSTSCRIPT_SIZE - metadata_size,
\*  file_size - POSTSCRIPT_SIZE - footer_size)
PointersInRegion ==
    \A ptr \in AllPointers :
       /\ file_size - POSTSCRIPT_SIZE - post_script.metadata_size <= ptr.offset
       /\ ptr.offset + ptr.size
             <= file_size - POSTSCRIPT_SIZE - post_script.footer_size

\* the region as the read-all strategy reads it (the ratio is 1.0)
ContiguousBlob ==
    MetadataStep(file.bytes, ProjectionAll, builder.read_ahead, file_size,
                 read_ahead_buffer, post_script, total_columns)

\* the buffers of the projected columns sliced from that blob
SlicedFromBlob ==
    ColumnMetadataStep(file.bytes, builder.projections, ContiguousBlob.val,
                       file_size, post_script, footer_fbs.v)

\* the buffers of the projected columns read one by one
ReadIndividually ==
    ColumnMetadataStep(file.bytes, builder.projections, None,
                       file_size, post_script, footer_fbs.v)

Built == stage = "done" /\ build_result.status = "ok"

\* the bytes of the file a column metadata pointer points at
MetadataAt(ptr) == SubSeq(file.bytes, ptr.offset + 1, ptr.offset + ptr.size)

\* the pointers of the leaf columns of row group i, in schema order
LeafColumns(i) == footer_fbs.v.row_group_metadatas.v[i].col_metadatas.v

\* C14: a built reader has one list of column metadata per row group of the
\* footer; under Projection::LeafColumnIndexes(P) each list has |P| entries,
\* the k-th being the metadata of leaf column P[k], and under Projection::All
\* it has one entry per leaf column, in schema order.
C14_ProjectionCardinality ==
    Built =>
      /\ Len(grouped_column_metadata_buffers)
           = Len(footer_fbs.v.row_group_metadatas.v)
      /\ \A i \in 1..Len(grouped_column_metadata_buffers) :
           LET entries == grouped_column_metadata_buffers[i]
               P == builder.projections.idx
           IN IF builder.projections.all
              THEN /\ Len(entries) = Len(LeafColumns(i))
                   /\ \A k \in 1..Len(entries) :
                        entries[k] = MetadataAt(LeafColumns(i)[k])
              ELSE /\ Len(entries) = Len(P)
                   /\ \A k \in 1..Len(P) :
                        entries[k] = MetadataAt(LeafColumns(i)[P[k] + 1])

\* a reader built with the projection [1, 0] over two row groups: each row
\* group has the metadata of column 1, then that of column 0
C14_Witness ==
    /\ Built
    /\ builder.projections = LeafColumnIndexes(<< 1, 0 >>)
    /\ Len(grouped_column_metadata_buffers) = 2
    /\ \A i \in 1..2 :
         /\ Len(grouped_column_metadata_buffers[i]) = 2
         /\ grouped_column_metadata_buffers[i][1] = MetadataAt(LeafColumns(i)[2])
         /\ grouped_column_metadata_buffers[i][2] = MetadataAt(LeafColumns(i)[1])
         /\ MetadataAt(LeafColumns(i)[1]) # MetadataAt(LeafColumns(i)[2])

(***************************************************************************)
(* Claims about the read-ahead of a build, checked under SpecBuild.        *)
(***************************************************************************)
\* the footer step of a build that reads ahead, for a footer that fits in
\* DEFAULT_IOUNIT_SIZE - POSTSCRIPT_SIZE bytes: the footer is taken from the
\* read-ahead buffer, and build goes on or finds it is no footer
FooterAccepted ==
    /\ build_result'.status # "panicked"
    /\ ~Returned(FooterTooLargeError(post_script.footer_size))'
    /\ Len(read_ahead_buffer) >= POSTSCRIPT_SIZE + post_script.footer_size
    /\ stage' = "row_groups" =>
         /\ footer_fbs' = Some(file.footer)
         /\ file.footer_bytes =
              SubSeq(read_ahead_buffer,
                     Len(read_ahead_buffer) - POSTSCRIPT_SIZE
                       - post_script.footer_size + 1,
                     Len(read_ahead_buffer) - POSTSCRIPT_SIZE)

C15_Step ==
    (stage = "footer" /\ builder.read_ahead) =>
        IF post_script.footer_size <= DEFAULT_IOUNIT_SIZE - POSTSCRIPT_SIZE
        THEN FooterAccepted
        ELSE /\ stage' = "done"
             /\ Returned(FooterTooLargeError(post_script.footer_size))'
             /\ footer_fbs' = None

\* C15: with read-ahead, the footer step accepts a footer if and only if
\* footer_size <= DEFAULT_IOUNIT_SIZE - POSTSCRIPT_SIZE, and otherwise build
\* returns FooterTooLarge; an accepted footer is the footer_size bytes before
\* the postscript in the read-ahead buffer, and the step never aborts.
C15_FooterFits == [][C15_Step]_vars

(***************************************************************************)
(* Claims about the decoder registry of a build, checked under SpecBuild.  *)
(***************************************************************************)
\* the optional sections of the footer, when the table is complete
SectionsTable == footer_fbs.v.optional_sections

SectionsComplete ==
    SectionsTable.some =>
       /\ SectionsTable.v.names.some /\ SectionsTable.v.offsets.some
       /\ SectionsTable.v.sizes.some /\ SectionsTable.v.compression_types.some
       /\ Len(SectionsTable.v.offsets.v) = Len(SectionsTable.v.names.v)
       /\ Len(SectionsTable.v.sizes.v) = Len(SectionsTable.v.names.v)
       /\ Len(SectionsTable.v.compression_types.v) = Len(SectionsTable.v.names.v)

\* the footer has an optional section named "WASMBinaries"
HasWasmBinaries ==
    /\ SectionsTable.some
    /\ \E i \in 1..Len(SectionsTable.v.names.v) :
         SectionsTable.v.names.v[i] = "WASMBinaries"

\* the (offset, size) of the first section of that name
WasmBinariesSection ==
    LET i == CHOOSE i \in 1..Len(SectionsTable.v.names.v) :
                /\ SectionsTable.v.names.v[i] = "WASMBinaries"
                /\ \A j \in 1..(i - 1) :
                     SectionsTable.v.names.v[j] # "WASMBinaries"
    IN SomeSection(SectionsTable.v.offsets.v[i], SectionsTable.v.sizes.v[i])

MissingDecoders ==
    General(<< "WASMBinaries section not found in optional sections" >>)

C16_Step ==
    (stage = "wasm_context" /\ SectionsComplete) =>
        IF builder.wasm_rts.some
        THEN /\ stage' = "shared_dictionary"
             /\ wasm_context' = Some([kind |-> "injected",
                                      rts |-> builder.wasm_rts.v,
                                      locations |-> NoneOpt])
        ELSE IF HasWasmBinaries
        THEN /\ stage' = "shared_dictionary"
             /\ wasm_context' = Some([kind |-> "file", rts |-> EmptyMap,
                                      locations |-> WasmBinariesSection])
        ELSE IF file.requires_decoder
        THEN stage' = "done" /\ Returned(MissingDecoders)'
        ELSE stage' = "shared_dictionary" /\ build_result' = BuildRunning

\* C16: with injected decoders build makes a registry that is ready with
\* them, whatever the sections of the file; without, it makes a lazy registry
\* over the (offset, size) of the section named "WASMBinaries"; when there is
\* no such section it fails with MissingDecoders if some column requires a
\* decoder, and goes on if none does.
C16_RegistrySelection == [][C16_Step]_vars

(***************************************************************************)
(* Claims about the with_ methods, checked under SpecSetters.              *)
(***************************************************************************)
WithSelectionCalled ==
    /\ setters_applied' = setters_applied + 1
    /\ last_call'.method = "with_selection"

C17_Step ==
    WithSelectionCalled =>
        LET selection == last_call'.arg
        IN IF \/ selection.kind = "All"
              \/ selection.kind = "RowIndexes" /\ Len(selection.row_indexes) = 1
           THEN /\ setter_result' = SetterOk
                /\ fluent_builder'.selection = selection
                /\ fluent_builder'.projections = fluent_builder.projections
                /\ fluent_builder'.read_ahead = fluent_builder.read_ahead
                /\ fluent_builder'.wasm_rts = fluent_builder.wasm_rts
                /\ fluent_builder'.verify_io_unit_checksum
                     = fluent_builder.verify_io_unit_checksum
                /\ fluent_builder'.verify_file_checksum
                     = fluent_builder.verify_file_checksum
           ELSE /\ setter_result' = SetterErr(OnlyOneRowIndex)
                /\ fluent_builder' = NoBuilder

\* C17: with_selection returns the builder for Selection::All and for a
\* row-index selection of exactly one group, and an error for a row-index
\* selection of no group or of two or more; the builder it returns differs
\* from the one it was called on in the selection only.
C17_WithSelection == [][C17_Step]_vars

\* with_selection was given one group on a builder whose other fields had
\* been set, and returned it with that selection and those fields
C17_Witness ==
    /\ last_call.method = "with_selection"
    /\ last_call.arg = RowIndexes(<< << 1, 2 >> >>)
    /\ setter_result = SetterOk
    /\ fluent_builder.selection = last_call.arg
    /\ fluent_builder.projections = LeafColumnIndexes(<< 1, 0 >>)
    /\ fluent_builder.read_ahead

(***************************************************************************)
(* Claims about how the registry is filled, checked under SpecRegistry.    *)
(***************************************************************************)
\* the read of the locator table, and that of the module of locator i
TableRead == << wasm_locations.offset, wasm_locations.size >>

ModuleRead(i) == << wasm_section.locs[i].offset, wasm_section.locs[i].size >>

C18_Step ==
    /\ (ctx = "absent" /\ ctx' = "file") =>
          /\ reads = << >> /\ reads' = << >>
          /\ lazy_wasm' = Uninit
          /\ init_runs' = 0 /\ compiles' = 0 /\ init_failure' = "none"
    /\ reads' # reads =>
          /\ ctx = "file"
          /\ init_runs = 1
          /\ \E t \in Threads : pc[t] \in {"init", "loop"}
    /\ \A t \in Threads :
          (pc[t] # "init" /\ pc'[t] = "init") => calls = 0

C18_Order ==
    reads # << >> =>
       /\ reads[1] = TableRead
       /\ \A i \in 2..Len(reads) : reads[i] = ModuleRead(i - 1)

\* C18: making a from-file registry reads nothing and leaves nothing that
\* could have failed; every read is made by the initialization, which the
\* first get_runtime call runs, and the first read is that of the locator
\* table, followed by the modules in the order of the table.
C18_Lazy == [][C18_Step]_vars /\ []C18_Order

\* a registry over a table of MaxLocators modules: the first call read the
\* table and the modules, all calls returned, and nothing else was read
C18_Witness ==
    /\ ctx = "file"
    /\ lazy_wasm.state = "Set" /\ lazy_wasm.ok
    /\ Len(wasm_section.locs) = MaxLocators
    /\ Len(reads) = 1 + MaxLocators
    /\ reads[1] = TableRead
    /\ calls = MaxCalls
    /\ \A t \in Threads : pc[t] = "idle"

\* what get_runtime returned for id
ReturnedFor(id) == { ret \in returned : ret.id = id }

\* C19: a registry made from an injected map is set to that map from
\* construction on and stays so; no initialization ever runs, nothing is
\* read or compiled, and get_runtime(id) returns the runtime of id in the
\* map when there is one and fails when there is none.
C19_Injected ==
    ctx = "injected" =>
       /\ lazy_wasm.state = "Set" /\ lazy_wasm.ok
       /\ lazy_wasm.map \in InjectedMaps
       /\ reads = << >> /\ compiles = 0 /\ init_runs = 0
       /\ init_failure = "none"
       /\ \A t \in Threads : pc[t] \in {"idle", "lookup"}
       /\ \A ret \in returned :
            IF ret.id \in DOMAIN lazy_wasm.map
            THEN ret.res = RetOk(InjectedRuntime(ret.id))
            ELSE ~ret.res.ok

\* a registry made from a map of runtime 0 alone: get_runtime(0) returned
\* that runtime, get_runtime(1) failed, nothing was read
C19_Witness ==
    /\ ctx = "injected"
    /\ DOMAIN lazy_wasm.map = {0}
    /\ ReturnedFor(0) = { [id |-> 0, res |-> RetOk(InjectedRuntime(0))] }
    /\ \E ret \in ReturnedFor(1) : ~ret.res.ok
    /\ reads = << >>

\* C20: once a from-file initialization has succeeded over a table of N
\* locators, the ids of the registry are 0..N-1 and id i is the runtime
\* compiled from the bytes of locator i, the i-th compiled.
C20_DenseIds ==
    (ctx = "file" /\ lazy_wasm.state = "Set" /\ lazy_wasm.ok) =>
       /\ wasm_section.parse = "list"
       /\ DOMAIN lazy_wasm.map = 0..(Len(wasm_section.locs) - 1)
       /\ \A i \in DOMAIN lazy_wasm.map :
            /\ lazy_wasm.map[i].offset = wasm_section.locs[i + 1].offset
            /\ lazy_wasm.map[i].size = wasm_section.locs[i + 1].size
            /\ lazy_wasm.map[i].serial = i + 1

\* two locators of different modules were loaded as ids 0 and 1
C20_Witness ==
    /\ ctx = "file" /\ lazy_wasm.state = "Set" /\ lazy_wasm.ok
    /\ Len(wasm_section.locs) = 2
    /\ wasm_section.locs[1].offset # wasm_section.locs[2].offset
    /\ DOMAIN lazy_wasm.map = {0, 1}
    /\ lazy_wasm.map[0].offset = wasm_section.locs[1].offset
    /\ lazy_wasm.map[1].offset = wasm_section.locs[2].offset

(***************************************************************************)
(* Claims about the size of an object, checked under SpecObject.           *)
(***************************************************************************)
\* the calls of size() that began after some call had returned
LaterCalls ==
    { i \in 1..Len(size_returns) : size_returns[i].began >= 1 }

\* C21: what the first size() call returned, a size or an error, is what
\* every size() call that began after it returned returns, and such a call
\* sends no request to the store.
C21_StickySize ==
    \A i \in LaterCalls :
       /\ size_returns[i].res = size_returns[1].res
       /\ size_returns[i].heads = 0

\* the calls of size() that returned Ok
OkCalls == { i \in 1..Len(size_returns) : size_returns[i].res.ok }

C22_Step == cache_size.some => cache_size' = cache_size

C22_Stored ==
    \A i \in OkCalls :
       /\ cache_size.some
       /\ size_returns[i].res.val = cache_size.val

\* C22: once the cache is set its value never changes, whoever tries to set
\* it later, and every size() call that returns Ok returns the value the
\* cache holds.
C22_FirstWriterWins == [][C22_Step]_vars /\ []C22_Stored

\* the calls of size() that began when the cache was set
CachedCalls == { i \in 1..Len(size_returns) : size_returns[i].cached }

C23_Cached ==
    /\ cache_size.some =>
         \E i \in OkCalls :
            /\ ~size_returns[i].cached
            /\ size_returns[i].res = SizeOk(cache_size.val)
    /\ \A i \in CachedCalls :
         /\ cache_size.some
         /\ size_returns[i].res = SizeOk(cache_size.val)
         /\ size_returns[i].heads = 0
    /\ \A i \in 1..Len(size_returns) :
         (\E j \in 1..size_returns[i].began : size_returns[j].res.ok)
            => size_returns[i].cached

AscendingIds(map) ==
    CHOOSE o \in IterationOrders(map) :
        \A i, j \in 1..Len(o) : i < j => o[i] < o[j]

C24_SortedWasms ==
    sorted_wasms.some =>
        LET ids == AscendingIds(writing_context.wasms)
        IN /\ Len(sorted_wasms.v.returned)
                = Cardinality(DOMAIN writing_context.wasms)
           /\ \A i \in 1..Len(ids) :
                  sorted_wasms.v.returned[i]
                     = writing_context.wasms[ids[i]].decode_wasm_binary

\* three decoders, handed out as 2, 0, 1 and returned as 0, 1, 2
C24_Witness ==
    /\ sorted_wasms.some
    /\ sorted_wasms.v.iterated = << 2, 0, 1 >>
    /\ sorted_wasms.v.returned = << << 1 >>, << 2 >>, << 1 >> >>
    /\ writing_context.wasms[1].decode_wasm_binary = << 2 >>

(***************************************************************************)
(* C25: with a context built by empty(), creating the encoder for a data   *)
(* type without a mapping fails (UnmappedDataType); no native encoder is   *)
(* substituted.  As amended: the call succeeds and returns the native      *)
(* (Vortex) encoder, built with the enable_dict flag it was given.         *)
(***************************************************************************)
UnmappedInEmpty ==
    /\ given.how = "empty"
    /\ encoder_call.called
    /\ encoder_call.data_type \notin DOMAIN writing_context.data_type_to_wasm_id

C25_UnmappedDataType ==
    UnmappedInEmpty =>
        /\ ~encoder_result.ok
        /\ encoder_result.encoder.kind # "Vortex"

C25_NativeFallback ==
    UnmappedInEmpty =>
        encoder_result = EncoderOk(VortexEncoder(encoder_call.enable_dict))

C25_Witness ==
    /\ UnmappedInEmpty
    /\ encoder_call.data_type = "Utf8"
    /\ encoder_result.ok

(***************************************************************************)
(* C26: the built-in decoder occupies id 0 exactly when it is present.     *)
(* default() and default_with_always_set_custom_wasm() report built-in id  *)
(* 0, hold the built-in binary under id 0 (first of the sorted list) and   *)
(* differ only in the always-custom flag; empty() and with_custom_wasms()  *)
(* report no built-in id and hold only the decoders they were given.       *)
(***************************************************************************)
WithBuiltin == {"default", "default_with_always_set_custom_wasm"}

C26_Builtin ==
    writing_context.state = "made" =>
        /\ given.how \in WithBuiltin =>
              /\ BuiltinWasmId(writing_context) = SomeInt(0)
              /\ DOMAIN writing_context.wasms = {0}
              /\ writing_context.wasms[0] = BuiltinLib
              /\ writing_context.data_type_to_wasm_id = NoMap
              /\ writing_context.always_set_custom_wasm_for_built_in
                    = (given.how = "default_with_always_set_custom_wasm")
              /\ sorted_wasms.some =>
                    sorted_wasms.v.returned[1] = BuiltinLib.decode_wasm_binary
        /\ given.how \notin WithBuiltin =>
              /\ BuiltinWasmId(writing_context) = NoneInt
              /\ writing_context.wasms = given.wasms
              /\ writing_context.data_type_to_wasm_id
                    = given.data_type_to_wasm_id
              /\ given.how = "empty" => given.wasms = NoMap
              /\ \A id \in DOMAIN writing_context.wasms :
                    writing_context.wasms[id] # BuiltinLib
        /\ BuiltinWasmId(writing_context).some
              <=> /\ 0 \in DOMAIN writing_context.wasms
                  /\ writing_context.wasms[0] = BuiltinLib

C26_Witness ==
    /\ given.how = "default_with_always_set_custom_wasm"
    /\ writing_context.always_set_custom_wasm_for_built_in
    /\ BuiltinWasmId(writing_context) = SomeInt(0)
    /\ sorted_wasms.some
    /\ sorted_wasms.v.returned = << BuiltinLib.decode_wasm_binary >>

(***************************************************************************)
(* C27: buffer_to_array returns MissingBuffers, an error and not a panic,  *)
(* whenever it is handed fewer buffers than the type family requires, for  *)
(* every row count, 0 included: fewer than 2 for primitive, boolean,       *)
(* byte-view and list types, fewer than 3 for byte arrays.                 *)
(***************************************************************************)
TwoBufferFamilies == {"primitive", "boolean", "byte_view", "list"}

TooFewBuffers ==
    \/ /\ TypeFamily(raw.logical_type) \in TwoBufferFamilies
       /\ Len(raw.buffers) < 2
    \/ /\ TypeFamily(raw.logical_type) = "byte_array"
       /\ Len(raw.buffers) < 3

C27_MissingBuffers ==
    (array_result.called /\ TooFewBuffers) =>
        array_result = ArrayErr(MissingBuffers)

\* a string array handed validity and offsets, without the data buffer
C27_Witness ==
    /\ array_result.called
    /\ raw.logical_type = "Utf8"
    /\ Len(raw.buffers) = 2
    /\ raw.row_count = 0
    /\ raw.lower_ok
    /\ array_result.err = MissingBuffers

(***************************************************************************)
(* C28: for a Struct, or another unsupported nesting, buffer_to_array      *)
(* returns UnsupportedType for every list of buffers (an empty one and one *)
(* too short for a supported type included) and every row count.           *)
(***************************************************************************)
C28_UnsupportedType ==
    (array_result.called /\ TypeFamily(raw.logical_type) = "unsupported") =>
        array_result = ArrayErr(UnsupportedType)

C28_Witness ==
    /\ array_result.called
    /\ raw.logical_type = "Struct"
    /\ raw.buffers = << >>
    /\ raw.row_count = MaxRows
    /\ array_result.err = UnsupportedType

(***************************************************************************)
(* C29: on the in-memory reader, whenever off + |buf| <= size the call     *)
(* read_exact_at(buf, off) succeeds and leaves in buf exactly the bytes    *)
(* data[off .. off + |buf|], reads that end at the end of the slice and    *)
(* reads of no bytes included; the slice is not changed, and size()        *)
(* returns its length.                                                     *)
(***************************************************************************)
InBounds == rd_offset + Len(buf_before) <= Len(slice)

C29_Step == slice' = slice

C29_Read ==
    /\ (rd_result.called /\ InBounds) =>
          /\ rd_result.ok
          /\ ~rd_result.panicked
          /\ rd_result.err = NoError
          /\ Len(buf) = Len(buf_before)
          /\ \A i \in 1..Len(buf) : buf[i] = slice[rd_offset + i]
    /\ size_result.called => size_result.value = Len(slice)

C29_InBounds == [][C29_Step]_vars /\ []C29_Read

\* a read of the last two bytes of a slice of three, then size()
C29_Witness ==
    /\ rd_result.called
    /\ size_result.called
    /\ slice = << 0, 0, 1 >>
    /\ rd_offset = 1
    /\ buf_before = << 0, 0 >>
    /\ buf = << 0, 1 >>
    /\ size_result.value = 3

(***************************************************************************)
(* C30: with C leaf columns and |P| projected ones (Projection::All has    *)
(* ratio 1), build makes exactly one contiguous read of metadata_size -    *)
(* footer_size bytes at file_size - POSTSCRIPT_SIZE - metadata_size when   *)
(* |P| / C > 0.6 or C <= 100; otherwise it makes no contiguous read and    *)
(* reads the metadata of each projected column of each row group at that   *)
(* pointer's offset and size.  Stated for the files a writer emits and     *)
(* the projections that name columns of the file; with read-ahead the copy *)
(* out of the read-ahead buffer counts as the contiguous read.             *)
(***************************************************************************)
AsWritten ==
    /\ origin.defect = "none"
    /\ origin.flip = NoFlip
    /\ origin.tag = 0
    /\ \A k \in 1..Len(builder.projections.idx) :
          builder.projections.idx[k] < total_columns

\* |P| / C > 0.6 or C <= 100, in integers
Batched ==
    \/ total_columns <= 100
    \/ builder.projections.all
    \/ 10 * Len(builder.projections.idx) > 6 * total_columns

RegionStart == file_size - POSTSCRIPT_SIZE - post_script.metadata_size

RegionSize == post_script.metadata_size - post_script.footer_size

\* one read per projected column per row group, row group by row group
IndividualReads ==
    LET groups == footer_fbs.v.row_group_metadatas.v
        idx == builder.projections.idx
    IN [n \in 1..(Len(groups) * Len(idx)) |->
          LET ptr == LeafColumns((n - 1) \div Len(idx) + 1)
                        [idx[((n - 1) % Len(idx)) + 1] + 1]
          IN ReadOf(ptr.offset, ptr.size)]

C30_Step ==
    /\ (stage = "metadata" /\ AsWritten) =>
          /\ stage' = "column_metadata"
          /\ IF Batched
             THEN /\ all_metadata_buffer'
                       = Some(SubSeq(file.bytes, RegionStart + 1,
                                     RegionStart + RegionSize))
                  /\ io' = IF builder.read_ahead
                           THEN io
                           ELSE Append(io, ReadOf(RegionStart, RegionSize))
             ELSE /\ all_metadata_buffer' = None
                  /\ io' = io
    /\ (stage = "column_metadata" /\ AsWritten) =>
          /\ stage' = "wasm_context"
          /\ io' = IF all_metadata_buffer.some
                   THEN io
                   ELSE io \o IndividualReads

C30_Batching == [][C30_Step]_vars

(***************************************************************************)
(* C31: with read_ahead, build issues one read of the reader, for the last *)
(* min(DEFAULT_IOUNIT_SIZE, file_size) bytes of the file, and takes the    *)
(* postscript and the footer out of that buffer without reading the reader *)
(* again for them; without read_ahead it reads the postscript from the     *)
(* reader and then the footer, at file_size - POSTSCRIPT_SIZE -            *)
(* footer_size.                                                            *)
(***************************************************************************)
TailLen == Min(DEFAULT_IOUNIT_SIZE, Len(file.bytes))

TailRead == ReadOf(Len(file.bytes) - TailLen, TailLen)

PostscriptRead == ReadOf(file_size - POSTSCRIPT_SIZE, POSTSCRIPT_SIZE)

FooterRead ==
    ReadOf(file_size - POSTSCRIPT_SIZE - post_script.footer_size,
           post_script.footer_size)

C31_Step ==
    /\ stage = "open" =>
          IF builder.read_ahead
          THEN /\ io' = << TailRead >>
               /\ read_ahead_buffer'
                     = SubSeq(file.bytes, Len(file.bytes) - TailLen + 1,
                              Len(file.bytes))
          ELSE io' = << >>
    /\ stage = "postscript" =>
          IF builder.read_ahead
          THEN /\ io' = io
               /\ stage' = "verify" =>
                     post_script'
                        = ReadPostscript(file.bytes, Len(file.bytes)).ps
          ELSE /\ io' \in {io, Append(io, PostscriptRead)}
               /\ stage' = "verify" => io' = << PostscriptRead >>
    /\ stage = "footer" =>
          IF builder.read_ahead
          THEN /\ io' = io
               /\ stage' = "row_groups" => footer_fbs' = Some(file.footer)
          ELSE stage' = "row_groups" =>
                  /\ io' = Append(io, FooterRead)
                  /\ io'[1] = PostscriptRead

C31_ReadAheadPlan == [][C31_Step]_vars

\* a file longer than DEFAULT_IOUNIT_SIZE, its footer parsed after the one
\* read of its tail
C31_Witness ==
    /\ stage = "row_groups"
    /\ builder.read_ahead
    /\ Len(file.bytes) > DEFAULT_IOUNIT_SIZE
    /\ io = << ReadOf(Len(file.bytes) - DEFAULT_IOUNIT_SIZE,
                      DEFAULT_IOUNIT_SIZE) >>
    /\ footer_fbs = Some(file.footer)

(***************************************************************************)
(* C32: the reader build returns has one row-group descriptor per row      *)
(* group of the footer, in the footer's order: the i-th descriptor is      *)
(* (row_counts[i], offsets[i], sizes[i]).                                  *)
(***************************************************************************)
RowGroupsOfFooter == Len(footer_fbs.v.row_group_metadatas.v)

C32_Descriptors ==
    Built =>
        /\ Len(row_group_cnt_n_pointers) = RowGroupsOfFooter
        /\ \A i \in 1..Len(row_group_cnt_n_pointers) :
              row_group_cnt_n_pointers[i]
                 = [row_count |-> footer_fbs.v.row_counts.v[i],
                    offset |-> footer_fbs.v.offsets.v[i],
                    size |-> footer_fbs.v.sizes.v[i]]

(***************************************************************************)
(* C36: in every reader build returns, the row-group descriptors and the   *)
(* per-row-group lists of column metadata buffers are equally many, also   *)
(* when row_counts, offsets, sizes and row_group_metadatas of the footer   *)
(* differ in length: build rejects such a footer.                          *)
(***************************************************************************)
SameLengths ==
    /\ Len(footer_fbs.v.row_counts.v) = RowGroupsOfFooter
    /\ Len(footer_fbs.v.offsets.v) = RowGroupsOfFooter
    /\ Len(footer_fbs.v.sizes.v) = RowGroupsOfFooter

C36_Correspond ==
    Built =>
        /\ Len(row_group_cnt_n_pointers) = Len(grouped_column_metadata_buffers)
        /\ SameLengths

(***************************************************************************)
(* C33: a footer without one of its required sequences makes build return  *)
(* a ParseError whose message names the missing field: row_group_metadatas,*)
(* the col_metadatas of a row group (the first or a later one),            *)
(* row_counts, offsets, sizes; no reader is returned.                      *)
(***************************************************************************)
\* the messages of the fields the footer of the file lacks
MissingFields ==
    LET footer == file.footer
        groups == footer.row_group_metadatas
    IN (IF groups.some THEN {}
        ELSE {<< "Row group metadatas not found in footer" >>})
       \cup (IF groups.some /\ groups.v # << >>
                 /\ ~groups.v[1].col_metadatas.some
              THEN {<< "Column metadatas not found in first row group" >>}
              ELSE {})
       \cup (IF groups.some
                 /\ \E g \in 2..Len(groups.v) : ~groups.v[g].col_metadatas.some
              THEN {<< "Column metadatas not found in row group" >>}
              ELSE {})
       \cup (IF footer.row_counts.some THEN {}
              ELSE {<< "Row counts not found in row groups pointer" >>})
       \cup (IF footer.offsets.some THEN {}
              ELSE {<< "Offsets not found in row groups pointer" >>})
       \cup (IF footer.sizes.some THEN {}
              ELSE {<< "Sizes not found in row groups pointer" >>})

\* the file is as a writer emits it, but for the missing sequence
OnlyMissing ==
    origin.defect \in {"no_row_group_metadatas", "no_col_metadatas_first",
                       "no_col_metadatas_last", "no_row_counts",
                       "no_offsets", "no_sizes"}

C33_MissingSequence ==
    (stage = "done" /\ OnlyMissing) =>
        /\ MissingFields # {}
        /\ build_result.status = "err"
        /\ build_result.err.variant = "ParseError"
        /\ build_result.err.text \in MissingFields

(***************************************************************************)
(* C34: build makes the shared dictionary cache itself, after the decoder  *)
(* registry and with that registry: the reader it returns has a cache      *)
(* exactly when the footer has a shared dictionary table, the cache holds  *)
(* every dictionary of the table, and build fails when a dictionary cannot *)
(* be read.                                                                *)
(***************************************************************************)
C34_Step ==
    /\ wasm_context' # wasm_context => stage = "wasm_context"
    /\ shared_dictionary_cache' # shared_dictionary_cache =>
          /\ stage = "shared_dictionary"
          /\ wasm_context' = wasm_context
    /\ ( /\ stage = "shared_dictionary"
         /\ footer_fbs.v.shared_dict_table.some
         /\ ~footer_fbs.v.shared_dict_table.v.readable )
       => /\ stage' = "done"
          /\ build_result'.status = "err"
          /\ shared_dictionary_cache' = None

C34_Cache ==
    /\ Built =>
          /\ shared_dictionary_cache.some
                <=> footer_fbs.v.shared_dict_table.some
          /\ shared_dictionary_cache.some =>
                /\ shared_dictionary_cache.v.wasm_context = wasm_context
                /\ shared_dictionary_cache.v.dicts
                      = footer_fbs.v.shared_dict_table.v.dicts
    /\ ( /\ stage = "done"
         /\ footer_fbs.some
         /\ footer_fbs.v.shared_dict_table.some
         /\ ~footer_fbs.v.shared_dict_table.v.readable )
       => build_result.status # "ok"

C34_EagerCache == [][C34_Step]_vars /\ []C34_Cache

\* a reader with a cache made with the registry the reader has
C34_Witness ==
    /\ Built
    /\ wasm_context.some
    /\ shared_dictionary_cache.some
    /\ shared_dictionary_cache.v.wasm_context = wasm_context

(***************************************************************************)
(* C35: read-ahead changes the reads and nothing else: when build succeeds *)
(* without read_ahead, the build of the same file with read_ahead and      *)
(* otherwise the same builder fails with the footer-too-large error or     *)
(* succeeds with the same footer, row-group descriptors and column         *)
(* metadata buffers, also when the column metadata region does not fit in  *)
(* the read-ahead buffer.                                                  *)
(***************************************************************************)
\* the steps of the build of the same file by the same builder with
\* read_ahead set; the steps that do not look at read_ahead stay as they are
ReadAheadOpen == OpenStep(file.bytes, TRUE)

ReadAheadPostscript ==
    PostscriptStep(file.bytes, TRUE, ReadAheadOpen.val.file_size,
                   ReadAheadOpen.val.read_ahead_buffer)

ReadAheadFooter ==
    FooterStep(file, TRUE, ReadAheadOpen.val.file_size,
               ReadAheadOpen.val.read_ahead_buffer, ReadAheadPostscript.val)

ReadAheadMetadata ==
    MetadataStep(file.bytes, builder.projections, TRUE,
                 ReadAheadOpen.val.file_size,
                 ReadAheadOpen.val.read_ahead_buffer,
                 ReadAheadPostscript.val, total_columns)

ReadAheadColumnMetadata ==
    ColumnMetadataStep(file.bytes, builder.projections,
                       ReadAheadMetadata.val, ReadAheadOpen.val.file_size,
                       ReadAheadPostscript.val, ReadAheadFooter.val)

C35_ReadAheadSameReader ==
    (Built /\ ~builder.read_ahead) =>
        /\ ReadAheadOpen.status = "ok"
        /\ ReadAheadPostscript.status = "ok"
        /\ ReadAheadPostscript.val = post_script
        /\ \/ ReadAheadFooter
                 = StepErr(FooterTooLargeError(post_script.footer_size), << >>)
           \/ /\ ReadAheadFooter.status = "ok"
              /\ ReadAheadFooter.val = footer_fbs.v
              /\ ReadAheadMetadata.status = "ok"
              /\ ReadAheadColumnMetadata.status = "ok"
              /\ ReadAheadColumnMetadata.val = grouped_column_metadata_buffers

(***************************************************************************)
(* C37: writer and reader agree on the decoder ids: in every writer        *)
(* context the public constructors make, with_custom_wasms with any id map *)
(* included, the position of a decoder in get_sorted_wasms() is its id, so *)
(* the id the reader's registry gives the binary at that position of the   *)
(* embedded list is the id the writer used.                                *)
(***************************************************************************)
C37_IdsAgree ==
    sorted_wasms.some =>
        LET ids == AscendingIds(writing_context.wasms)
        IN \A pos \in 1..Len(ids) :
              /\ sorted_wasms.v.returned[pos]
                    = writing_context.wasms[ids[pos]].decode_wasm_binary
              /\ WasmIdOf(pos - 1) = ids[pos]

====
